---- MODULE Spec2Model ----
(***************************************************************************)
(* Verification model of the chart-rendering engine in                     *)
(* src/后端代码/utils_plot.py (and the reference renderer                  *)
(* src/后端代码/供参考的绘图代码/plot_excel_hysteresis.py).                *)
(*                                                                         *)
(* The module holds several specifications over one set of variables:      *)
(*   SpecAnnot   - a figure receiving a sequence of                        *)
(*                 _place_annot_no_overlap calls                           *)
(*   SpecSmooth  - one _smooth_series call on a drawn series               *)
(*   SpecLim     - the axis-limit stage of one render on one axis          *)
(*   SpecTS      - one time-series preview or export request               *)
(*   SpecHys     - one hysteresis preview or export request                *)
(*   SpecExport  - one export request of either chart on a storage that    *)
(*                 may fail                                                *)
(*   SpecAuto    - one _nice_auto_limits call of the reference renderer    *)
(*   SpecMetrics - one _add_peak_metrics_box call                          *)
(*   SpecPreview - one preview request of either chart on a storage that   *)
(*                 holds older exports                                     *)
(*   SpecProc    - a process serving preview and export requests one       *)
(*                 after another                                           *)
(*   SpecAspect  - one hysteresis render, statement by statement           *)
(*   SpecConc    - time-series requests with peak annotations served by    *)
(*                 concurrent threads                                      *)
(* Each specification leaves the variables of the others at their          *)
(* initial value.                                                          *)
(***************************************************************************)
EXTENDS Integers, Sequences, FiniteSets, TLC

VARIABLES
    dpi,            \* figure resolution of the figure under annotation
    arrow_extent,   \* does Annotation.get_window_extent include the arrow patch
    used_bboxes,    \* the caller's list of placed boxes (used_bboxes)
    texts,          \* annotations currently attached to the axes
    markers,        \* scatter markers drawn on the axes
    calls,          \* number of completed _place_annot_no_overlap calls
    placed,         \* per call: what the call returned / kept
    sm_in,          \* arguments of a _smooth_series call: y, method, kwargs
    sm_out,         \* outcome of the _smooth_series call
    lim_in,         \* an axis to resolve: renderer, axis, plotted data, user spec
    lim_out,        \* outcome of the axis-limit stage: the set_xlim/set_ylim calls
    rq,             \* a render request: mode, chart, dataset, params, environment,
                    \* and the storage as the request found it
    rs,             \* what the request returned or how it aborted
    store,          \* the storage exports write to: directories, files, archives
    mb_in,          \* arguments of an _add_peak_metrics_box call: y_ref, y_cmp,
                    \* and the unit 10^-exp their samples are counted in
    mb_out,         \* outcome of the _add_peak_metrics_box call
    rcParams,       \* the process-wide style configuration (mpl.rcParams)
    figures,        \* number of figures open in the pyplot figure registry
    served,         \* the requests the process finished before the present one
    th              \* render calls running concurrently, each with its locals

annotVars == <<dpi, arrow_extent, used_bboxes, texts, markers, calls, placed>>

smoothVars == <<sm_in, sm_out>>

limVars == <<lim_in, lim_out>>

tsVars == <<rq, rs, store>>

boxVars == <<mb_in, mb_out>>

procVars == <<rcParams, figures, served>>

concVars == <<th>>

vars == <<annotVars, smoothVars, limVars, tsVars, boxVars, procVars, concVars>>

----------------------------------------------------------------------------
(* Bounds of the model *)

\* number of annotation calls on one figure
MaxCalls == 3

\* longest series drawn as input
MaxLen == 3

\* number of requests a process serves
MaxRequests == 2

\* most rows of a dataset handed to a render
MaxRows == 2

\* most series columns of a dataset handed to a render
MaxSeries == 2

----------------------------------------------------------------------------
(* Series and samples *)

Min2(a, b) == IF a <= b THEN a ELSE b
Max2(a, b) == IF a >= b THEN a ELSE b

\* a sample is a float: NaN, or the rational num/den
NaN == [nan |-> TRUE, num |-> 0, den |-> 1]
Num(v) == [nan |-> FALSE, num |-> v, den |-> 1]

\* cell values of the drawn series (after pd.to_numeric(errors="coerce"))
Samples == {NaN, Num(-2), Num(0), Num(1)}

SeqsUpTo(S, n) == UNION {[1..m -> S] : m \in 0..n}

SeriesInputs == SeqsUpTo(Samples, MaxLen)

\* numeric equality of two floats; NaN sits only where NaN sits
SameSample(a, b) ==
    IF a.nan \/ b.nan THEN a.nan /\ b.nan
    ELSE a.num * b.den = b.num * a.den

\* arithmetic and order of floats that are not NaN (den > 0)
RLt(a, b) == a.num * b.den < b.num * a.den
RLe(a, b) == a.num * b.den <= b.num * a.den
REq(a, b) == a.num * b.den = b.num * a.den
RNeg(a) == [nan |-> FALSE, num |-> 0 - a.num, den |-> a.den]
RAbs(a) == IF a.num < 0 THEN RNeg(a) ELSE a
RECURSIVE Gcd(_, _)
Gcd(a, b) == IF b = 0 THEN a ELSE Gcd(b, a % b)
\* the fraction n/d (d > 0) in lowest terms
Frac(n, d) ==
    LET g == Gcd(IF n < 0 THEN 0 - n ELSE n, d)
    IN  [nan |-> FALSE, num |-> n \div g, den |-> d \div g]
RAdd(a, b) == Frac(a.num * b.den + b.num * a.den, a.den * b.den)
RSub(a, b) == RAdd(a, RNeg(b))
\* the product, with the common factors taken out before multiplying
RMul(a, b) ==
    LET g1 == Gcd(IF a.num < 0 THEN 0 - a.num ELSE a.num, b.den)
        g2 == Gcd(IF b.num < 0 THEN 0 - b.num ELSE b.num, a.den)
    IN  Frac((a.num \div g1) * (b.num \div g2), (a.den \div g2) * (b.den \div g1))
RMin(a, b) == IF RLt(b, a) THEN b ELSE a
RMax(a, b) == IF RLt(a, b) THEN b ELSE a

\* the non-NaN samples of a series, in order (y[~np.isnan(y)])
Valid(y) == SelectSeq(y, LAMBDA v : ~v.nan)

\* np.nanmin / np.nanmax of a series with at least one non-NaN sample
RECURSIVE FoldMin(_, _)
FoldMin(y, i) ==
    IF i = 1 THEN y[1] ELSE RMin(FoldMin(y, i - 1), y[i])
RECURSIVE FoldMax(_, _)
FoldMax(y, i) ==
    IF i = 1 THEN y[1] ELSE RMax(FoldMax(y, i - 1), y[i])
NanMin(y) == FoldMin(Valid(y), Len(Valid(y)))
NanMax(y) == FoldMax(Valid(y), Len(Valid(y)))

----------------------------------------------------------------------------
(* Values the variables of a component hold while another component runs *)

\* the figure before any annotation call
IdleAnnot ==
    /\ dpi = 72
    /\ arrow_extent = FALSE
    /\ used_bboxes = <<>>
    /\ texts = <<>>
    /\ markers = 0
    /\ calls = 0
    /\ placed = <<>>

\* outcome of a _smooth_series call: did it raise, which filter was applied
\* with which width, and the returned series
Outcome(raised, applied, window, y) ==
    [raised |-> raised, applied |-> applied, window |-> window, y |-> y]

\* no call made yet
Pending == Outcome(FALSE, "pending", 0, <<>>)

\* defaults of kwargs.get: k=5, window_length=11, polyorder=3
DefaultKwargs == [k |-> 5, window_length |-> 11, polyorder |-> 3]

IdleSmooth ==
    /\ sm_in = [y |-> <<>>, method |-> "none", kwargs |-> DefaultKwargs]
    /\ sm_out = Pending

\* Python's None or a float
NoneV == [none |-> TRUE, v |-> NaN]
Some(v) == [none |-> FALSE, v |-> v]

\* an xlim/ylim parameter: None, a pair (each end None or a float), or a
\* value that is not a list/tuple of length 2
LimNone == [kind |-> "none", lo |-> NoneV, hi |-> NoneV]
LimPair(lo, hi) == [kind |-> "pair", lo |-> lo, hi |-> hi]
LimMalformed == [kind |-> "malformed", lo |-> NoneV, hi |-> NoneV]

\* outcome of the limit stage of one axis: did the render abort there, and
\* the (lo, hi) pairs passed to set_xlim/set_ylim, in call order
AxisOutcome(status, raised, applied) ==
    [status |-> status, raised |-> raised, applied |-> applied]

IdleLim ==
    /\ lim_in = [renderer |-> "timeseries", axis |-> "x", data |-> <<>>, lim |-> LimNone]
    /\ lim_out = AxisOutcome("pending", FALSE, <<>>)

\* params of a time-series request; dpi = 0: the key is absent
TSParams(smooth, k, annotate_peaks, metrics_box, xlim, ylim) ==
    [smooth |-> smooth, smooth_kwargs |-> [DefaultKwargs EXCEPT !.k = k],
     annotate_peaks |-> annotate_peaks, metrics_box |-> metrics_box,
     xlim |-> xlim, ylim |-> ylim, dpi |-> 0,
     save_dir |-> "", filename_base |-> <<>>,
     export_formats |-> [given |-> FALSE, v |-> <<>>]]

\* the metrics box of a figure that has none
NoMetrics == [drawn |-> FALSE, p1 |-> NaN, p2 |-> NaN, peak_drop |-> NaN]

\* what is on a figure; stage names the statement that raised
Figure(raised, stage, res, lines, xlims, ylims, annots, metrics) ==
    [raised |-> raised, stage |-> stage, dpi |-> res, lines |-> lines,
     xlims |-> xlims, ylims |-> ylims, annots |-> annots, metrics |-> metrics]

NoFigure == Figure(FALSE, "", 0, <<>>, <<>>, <<>>, <<>>, NoMetrics)

\* a response: status ok/raised, the stage that raised, the encoded preview
\* image, the written files and archive, the figures left open
Response(status, stage, image, files, zip, open_figs) ==
    [status |-> status, stage |-> stage, preview_data_url |-> image,
     files |-> files, zip |-> zip, open_figs |-> open_figs]

\* no request served yet
NoResponse == Response("pending", "", NoFigure, <<>>, <<>>, 0)

\* what a request meets outside the program: the wall clock at the export
\* (datetime.now(), to the second) and the storage fault, if any
Env(now, io) == [now |-> now, io |-> io]

\* storage faults of one export call: none, os.makedirs fails, the savefig of
\* the at-th format fails with an I/O error (leaving a truncated file or not),
\* the archive cannot be opened, the archive fails while entries are written
NoFault == [kind |-> "none", at |-> 0, partial |-> FALSE]
MkdirFault == [kind |-> "makedirs", at |-> 0, partial |-> FALSE]
SaveFault(at, partial) == [kind |-> "savefig", at |-> at, partial |-> partial]
ZipOpenFault == [kind |-> "zipopen", at |-> 0, partial |-> FALSE]
ZipWriteFault == [kind |-> "zipwrite", at |-> 0, partial |-> FALSE]

\* a storage: the directories, the files and the archives (path and entry
\* names) it holds
Store(dirs, files, zips) == [dirs |-> dirs, files |-> files, zips |-> zips]

EmptyStore == Store({}, {}, {})

IdleTS ==
    /\ rq = [mode |-> "preview", chart |-> "timeseries",
             df |-> [x |-> <<>>, ys |-> <<>>, absent |-> {}],
             params |-> TSParams("none", 5, FALSE, FALSE, LimNone, LimNone),
             env |-> Env("t0", NoFault), store0 |-> EmptyStore]
    /\ rs = NoResponse
    /\ store = EmptyStore

\* no metrics box asked for yet
IdleBox ==
    /\ mb_in = [exp |-> 0, y_ref |-> <<>>, y_cmp |-> <<>>]
    /\ mb_out = [status |-> "pending", raised |-> FALSE, box |-> NoMetrics]

\* mpl.rcParams.update({...}) at import, the entries the model follows:
\* font.size 10.5, savefig.dpi 300, savefig.bbox "tight",
\* figure.constrained_layout.use True
ImportedRcParams ==
    [font_size |-> [nan |-> FALSE, num |-> 21, den |-> 2], savefig_dpi |-> 300,
     savefig_bbox |-> "tight", constrained_layout |-> TRUE]

\* the process after import: the style written, no figure open, no request
\* finished
IdleProc ==
    /\ rcParams = ImportedRcParams
    /\ figures = 0
    /\ served = <<>>

\* no concurrent render call
IdleConc == th = <<>>

\* a mutant of StyleOfCall: the call writes the text size it computed back
StyleOfCallWritesBack(rc) ==
    [rc |-> [rc EXCEPT !.font_size =
                [nan |-> FALSE,
                 num |-> Max2(9, rc.font_size.num \div rc.font_size.den) - 1, den |-> 1]],
     fontsize |-> Max2(9, rc.font_size.num \div rc.font_size.den) - 1]

\* what a render call does with the process-wide style: it reads font.size
\* (max(9, int(plt.rcParams["font.size"])) - 1 is the text size of the
\* annotations and of the metrics box) and axes.titlepad; it assigns no entry
StyleOfCall(rc) ==
    [rc |-> rc, fontsize |-> Max2(9, rc.font_size.num \div rc.font_size.den) - 1]

\* what a served request leaves in the process: the figures it did not close
\* stay in the registry
Process(resp) ==
    /\ figures' = figures + resp.open_figs
    /\ rcParams' = StyleOfCall(rcParams).rc
    /\ UNCHANGED served

----------------------------------------------------------------------------
(* Peak annotation: collision-aware placement *)

\* candidate offsets in points, in the order the code tries them
Candidates ==
    << <<6, 10>>, <<0, 14>>, <<0, -18>>, <<14, 0>>, <<-18, 0>>,
       <<10, 12>>, <<-12, 10>>, <<12, -10>>, <<-10, -12>>, <<22, 6>>, <<-22, 6>> >>

\* offset of the fallback annotation
FallbackOffset == <<6, 10>>

\* default pixel margin of _bboxes_overlap (pad=2.0)
OverlapPad == 2

\* figure resolutions (pixels per inch); 72 points make one inch
DPIs == {72, 144}

\* anchor points of the annotated samples, in points from the axes origin
Anchors == {<<0, 0>>, <<26, 0>>, <<0, 40>>}

\* rendered text box sizes (width, height) in points
TextSizes == {<<70, 14>>, <<24, 12>>}

PtToPx(d, res) == (d * res) \div 72

\* ann.get_window_extent after canvas.draw(): the text box sits with its
\* lower-left corner (ha="left", va="bottom") at anchor + offset; when the
\* library unions the arrow patch into the extent the box also reaches the
\* anchor point
MeasureBBox(xy, off, size, res, withArrow) ==
    LET tx0 == PtToPx(xy[1] + off[1], res)
        ty0 == PtToPx(xy[2] + off[2], res)
        tx1 == PtToPx(xy[1] + off[1] + size[1], res)
        ty1 == PtToPx(xy[2] + off[2] + size[2], res)
        ax  == PtToPx(xy[1], res)
        ay  == PtToPx(xy[2], res)
    IN  IF withArrow
        THEN [x0 |-> Min2(tx0, ax), y0 |-> Min2(ty0, ay),
              x1 |-> Max2(tx1, ax), y1 |-> Max2(ty1, ay)]
        ELSE [x0 |-> tx0, y0 |-> ty0, x1 |-> tx1, y1 |-> ty1]

\* a mutant of the overlap test: boxes are compared without the margin and
\* touching edges do not count
BBoxesOverlapStrict(bb1, bb2, pad) ==
    ~(bb1.x1 <= bb2.x0 \/ bb2.x1 <= bb1.x0 \/ bb1.y1 <= bb2.y0 \/ bb2.y1 <= bb1.y0)

_bboxes_overlap(bb1, bb2, pad) ==
    LET x11 == bb1.x0 - pad
        y11 == bb1.y0 - pad
        x12 == bb1.x1 + pad
        y12 == bb1.y1 + pad
        x21 == bb2.x0 - pad
        y21 == bb2.y0 - pad
        x22 == bb2.x1 + pad
        y22 == bb2.y1 + pad
    IN  ~(x12 < x21 \/ x22 < x11 \/ y12 < y21 \/ y22 < y11)

\* conflict = any(_bboxes_overlap(bb, ub) for ub in used_bboxes)
Conflict(bb, used) ==
    \E k \in 1..Len(used) : _bboxes_overlap(bb, used[k], OverlapPad)

RemoveLast(s) == SubSeq(s, 1, Len(s) - 1)

\* the loop over the candidates followed by the fallback placement.
\* fig is the list of annotations on the axes, used the caller's box list.
RECURSIVE TryCandidates(_, _, _, _, _, _, _)
TryCandidates(i, fig, used, xy, size, res, withArrow) ==
    IF i > Len(Candidates)
    THEN LET bb  == MeasureBBox(xy, FallbackOffset, size, res, withArrow)
             ann == [xy |-> xy, off |-> FallbackOffset, size |-> size]
         IN  [fig |-> Append(fig, ann), used |-> Append(used, bb),
              ann |-> ann, bb |-> bb, tried |-> i - 1, fallback |-> TRUE]
    ELSE LET off  == Candidates[i]
             ann  == [xy |-> xy, off |-> off, size |-> size]
             fig1 == Append(fig, ann)
             bb   == MeasureBBox(xy, off, size, res, withArrow)
         IN  IF ~Conflict(bb, used)
             THEN [fig |-> fig1, used |-> Append(used, bb),
                   ann |-> ann, bb |-> bb, tried |-> i, fallback |-> FALSE]
             ELSE TryCandidates(i + 1, RemoveLast(fig1), used, xy, size, res, withArrow)

\* a mutant of the loop: a rejected candidate is left on the axes
RECURSIVE TryCandidatesNoRemove(_, _, _, _, _, _, _)
TryCandidatesNoRemove(i, fig, used, xy, size, res, withArrow) ==
    IF i > Len(Candidates)
    THEN LET bb  == MeasureBBox(xy, FallbackOffset, size, res, withArrow)
             ann == [xy |-> xy, off |-> FallbackOffset, size |-> size]
         IN  [fig |-> Append(fig, ann), used |-> Append(used, bb),
              ann |-> ann, bb |-> bb, tried |-> i - 1, fallback |-> TRUE]
    ELSE LET off  == Candidates[i]
             ann  == [xy |-> xy, off |-> off, size |-> size]
             fig1 == Append(fig, ann)
             bb   == MeasureBBox(xy, off, size, res, withArrow)
         IN  IF ~Conflict(bb, used)
             THEN [fig |-> fig1, used |-> Append(used, bb),
                   ann |-> ann, bb |-> bb, tried |-> i, fallback |-> FALSE]
             ELSE TryCandidatesNoRemove(i + 1, fig1, used, xy, size, res, withArrow)

PlaceAnnotNoRemove(fig, used, xy, size, res, withArrow) ==
    TryCandidatesNoRemove(1, fig, used, xy, size, res, withArrow)

\* a mutant of the placement: every candidate is taken to conflict, so the
\* call goes straight to the fallback
PlaceAnnotAllConflict(fig, used, xy, size, res, withArrow) ==
    LET bb  == MeasureBBox(xy, FallbackOffset, size, res, withArrow)
        ann == [xy |-> xy, off |-> FallbackOffset, size |-> size]
    IN  [fig |-> Append(fig, ann), used |-> Append(used, bb),
         ann |-> ann, bb |-> bb, tried |-> Len(Candidates), fallback |-> TRUE]

_place_annot_no_overlap(fig, used, xy, size, res, withArrow) ==
    TryCandidates(1, fig, used, xy, size, res, withArrow)

\* one call of _place_annot_no_overlap on the figure: scatter marker, the
\* candidate loop, the fallback
PlaceAnnot(xy, size) ==
    /\ calls < MaxCalls
    /\ LET r == _place_annot_no_overlap(texts, used_bboxes, xy, size, dpi, arrow_extent)
       IN  /\ texts' = r.fig
           /\ used_bboxes' = r.used
           /\ placed' = Append(placed, [xy |-> xy, size |-> size, off |-> r.ann.off,
                                        bb |-> r.bb, tried |-> r.tried,
                                        fallback |-> r.fallback])
    /\ markers' = markers + 1
    /\ calls' = calls + 1
    /\ UNCHANGED <<dpi, arrow_extent>>
    /\ UNCHANGED <<smoothVars, limVars, tsVars, boxVars, procVars, concVars>>

InitAnnot ==
    /\ dpi \in DPIs
    /\ arrow_extent \in BOOLEAN
    /\ used_bboxes = <<>>
    /\ texts = <<>>
    /\ markers = 0
    /\ calls = 0
    /\ placed = <<>>
    /\ IdleSmooth
    /\ IdleLim
    /\ IdleTS
    /\ IdleBox
    /\ IdleProc
    /\ IdleConc

NextAnnot == \E xy \in Anchors, size \in TextSizes : PlaceAnnot(xy, size)

SpecAnnot == InitAnnot /\ [][NextAnnot]_vars

----------------------------------------------------------------------------
(* _smooth_series *)

\* kernel widths, window lengths and polynomial orders a request may carry
Ks == -1..5
WindowLengths == {-1, 0, 2, 3, 4, 5, 11}
PolyOrders == {-1, 0, 2, 3}

RECURSIVE SumNum(_, _)
SumNum(y, idxs) ==
    IF idxs = {} THEN 0
    ELSE LET i == CHOOSE j \in idxs : TRUE
         IN  y[i].num + SumNum(y, idxs \ {i})

\* np.convolve(y, np.ones(k) / k, mode="same"): the longer operand comes
\* first, the output has the length of the longer operand, and output i sums
\* the products over the part of the shorter operand's window that lies
\* inside the longer one
ConvolveSame(y, k) ==
    LET n  == Len(y)
        L  == Max2(n, k)
        S  == Min2(n, k)
        nl == S \div 2
        \* indices (1-based) of the samples of y under output position i0 (0-based)
        win(i0) ==
            IF n >= k
            THEN {t + 1 : t \in {i0 - nl + j : j \in 0..(S - 1)} \cap (0..(L - 1))}
            ELSE {n - j : j \in {jj \in 0..(S - 1) : i0 - nl + jj \in 0..(L - 1)}}
        outAt(i0) ==
            IF \E t \in win(i0) : y[t].nan THEN NaN
            ELSE [nan |-> FALSE, num |-> SumNum(y, win(i0)), den |-> k]
    IN  IF n = 0
        THEN [raised |-> TRUE, y |-> <<>>]
        ELSE [raised |-> FALSE, y |-> [i \in 1..L |-> outAt(i - 1)]]

\* a mutant of the clamp: widths below 2 are raised to 2
ClampKTwo(k) == Max2(2, k)

\* k = max(1, k)
ClampK(k) == Max2(1, k)

\* the three window adjustments of the savgol branch
SavgolWindow(wl0, n) ==
    LET w1 == Max2(3, IF wl0 % 2 = 1 THEN wl0 ELSE wl0 + 1)
        w2 == IF n > 3 THEN Min2(w1, n - (1 - (n % 2))) ELSE 3
        w3 == Max2(3, IF w2 % 2 = 1 THEN w2 ELSE w2 - 1)
    IN  w3

\* when scipy's savgol_filter(y, wl, po, mode="interp") must raise
SavgolMustRaise(y, wl, po) == po >= wl \/ wl > Len(y)

\* when it can raise depending on the library build: a negative order, or
\* NaN samples reaching the least-squares edge fit
SavgolMayRaise(y, wl, po) == po < 0 \/ \E i \in 1..Len(y) : y[i].nan

\* a mutant of the guarded filter call: the except clause is missing
SavgolUnguarded(y, wl, po, libRaises) ==
    IF libRaises
    THEN Outcome(TRUE, "none", wl, <<>>)
    ELSE Outcome(FALSE, "savgol", wl, [i \in 1..Len(y) |-> [nan |-> y[i].nan, num |-> 0, den |-> 0]])

\* try: return savgol_filter(...) except Exception: return y
\* the filtered series keeps the length; its values are scipy's and are
\* left abstract (den = 0 marks a filtered sample)
SavgolGuarded(y, wl, po, libRaises) ==
    IF libRaises
    THEN Outcome(FALSE, "none", wl, y)
    ELSE Outcome(FALSE, "savgol", wl, [i \in 1..Len(y) |-> [nan |-> y[i].nan, num |-> 0, den |-> 0]])

\* libRaises: whether savgol_filter raises in this call
_smooth_series(y, method, kwargs, libRaises) ==
    IF method = "none"
    THEN Outcome(FALSE, "none", 0, y)
    ELSE IF method = "savgol"
    THEN LET wl == SavgolWindow(kwargs.window_length, Len(y))
             po == kwargs.polyorder
         IN  IF Len(y) >= wl
             THEN SavgolGuarded(y, wl, po, libRaises)
             ELSE Outcome(FALSE, "none", wl, y)
    ELSE IF method = "ma"
    THEN LET k == ClampK(kwargs.k)
         IN  IF k = 1
             THEN Outcome(FALSE, "none", 0, y)
             ELSE LET c == ConvolveSame(y, k)
                  IN  Outcome(c.raised, "ma", k, c.y)
    ELSE Outcome(FALSE, "none", 0, y)

InitSmooth ==
    /\ \E y \in SeriesInputs :
        \/ sm_in = [y |-> y, method |-> "none", kwargs |-> DefaultKwargs]
        \/ sm_in = [y |-> y, method |-> "other", kwargs |-> DefaultKwargs]
        \/ \E k \in Ks :
            sm_in = [y |-> y, method |-> "ma", kwargs |-> [DefaultKwargs EXCEPT !.k = k]]
        \/ \E wl \in WindowLengths, po \in PolyOrders :
            sm_in = [y |-> y, method |-> "savgol",
                     kwargs |-> [DefaultKwargs EXCEPT !.window_length = wl, !.polyorder = po]]
    /\ sm_out = Pending
    /\ IdleAnnot
    /\ IdleLim
    /\ IdleTS
    /\ IdleBox
    /\ IdleProc
    /\ IdleConc

\* one call _smooth_series(y, method, kwargs)
Smooth ==
    /\ sm_out = Pending
    /\ \E libRaises \in BOOLEAN :
        LET wl == SavgolWindow(sm_in.kwargs.window_length, Len(sm_in.y))
            po == sm_in.kwargs.polyorder
        IN  /\ SavgolMustRaise(sm_in.y, wl, po) => libRaises
            /\ (~SavgolMustRaise(sm_in.y, wl, po) /\ ~SavgolMayRaise(sm_in.y, wl, po))
                  => ~libRaises
            /\ sm_out' = _smooth_series(sm_in.y, sm_in.method, sm_in.kwargs, libRaises)
    /\ UNCHANGED sm_in
    /\ UNCHANGED <<annotVars, limVars, tsVars, boxVars, procVars, concVars>>

NextSmooth == Smooth

SpecSmooth == InitSmooth /\ [][NextSmooth]_vars

----------------------------------------------------------------------------
(* Axis limits *)

\* a mutant of _normalize_lim: a missing lower end takes the data maximum
\* and a missing upper end the data minimum
NormalizeLimSwapped(lim, dmin, dmax) ==
    IF lim.kind = "none"
    THEN [raised |-> FALSE, none |-> TRUE, lo |-> NaN, hi |-> NaN]
    ELSE IF lim.kind = "pair"
    THEN LET lo == IF lim.lo.none THEN dmax ELSE lim.lo
             hi == IF lim.hi.none THEN dmin ELSE lim.hi
         IN  IF lo.none \/ hi.none
             THEN [raised |-> TRUE, none |-> FALSE, lo |-> NaN, hi |-> NaN]
             ELSE [raised |-> FALSE, none |-> FALSE, lo |-> lo.v, hi |-> hi.v]
    ELSE [raised |-> TRUE, none |-> FALSE, lo |-> NaN, hi |-> NaN]

\* dmin, dmax: None or a float.  float(None) raises TypeError, a value that
\* is not a pair raises ValueError.
_normalize_lim(lim, dmin, dmax) ==
    IF lim.kind = "none"
    THEN [raised |-> FALSE, none |-> TRUE, lo |-> NaN, hi |-> NaN]
    ELSE IF lim.kind = "pair"
    THEN LET lo == IF lim.lo.none THEN dmin ELSE lim.lo
             hi == IF lim.hi.none THEN dmax ELSE lim.hi
         IN  IF lo.none \/ hi.none
             THEN [raised |-> TRUE, none |-> FALSE, lo |-> NaN, hi |-> NaN]
             ELSE [raised |-> FALSE, none |-> FALSE, lo |-> lo.v, hi |-> hi.v]
    ELSE [raised |-> TRUE, none |-> FALSE, lo |-> NaN, hi |-> NaN]

\* ax.set_xlim / ax.set_ylim raise ValueError on a NaN limit
SetLimRaises(lo, hi) == lo.nan \/ hi.nan

\* y_all_min, y_all_max = np.inf, -np.inf, then narrowed by every series with
\* a non-NaN sample; finite = FALSE stands for (inf, -inf)
RECURSIVE AccumExtremes(_, _)
AccumExtremes(ys, i) ==
    IF i = 0
    THEN [finite |-> FALSE, min |-> NaN, max |-> NaN]
    ELSE LET prev == AccumExtremes(ys, i - 1)
             y    == ys[i]
         IN  IF Len(y) > 0 /\ Len(Valid(y)) > 0
             THEN [finite |-> TRUE,
                   min |-> IF prev.finite THEN RMin(prev.min, NanMin(y)) ELSE NanMin(y),
                   max |-> IF prev.finite THEN RMax(prev.max, NanMax(y)) ELSE NanMax(y)]
             ELSE prev

\* try: default = (min, max) if finite else None; norm = _normalize_lim(...);
\*      if norm is not None: ax.set_?lim(*norm)
\* except Exception: pass
\* prior: the set_?lim calls already made on the axis; default: None or the
\* data extremes
ApplyUserLim(prior, lim, hasDefault, dmin, dmax) ==
    LET norm == _normalize_lim(lim, IF hasDefault THEN Some(dmin) ELSE NoneV,
                               IF hasDefault THEN Some(dmax) ELSE NoneV)
    IN  IF norm.raised \/ norm.none \/ SetLimRaises(norm.lo, norm.hi)
        THEN AxisOutcome("done", FALSE, prior)
        ELSE AxisOutcome("done", FALSE, Append(prior, <<norm.lo, norm.hi>>))

\* y axis of the time-series chart, both axes of the hysteresis chart
ResolveAccumAxis(ys, lim) ==
    LET e == AccumExtremes(ys, Len(ys))
    IN  ApplyUserLim(<<>>, lim, e.finite, e.min, e.max)

\* x axis of the time-series chart: pinned to the data extent first
ResolveTimeX(x, lim) ==
    IF Len(x) = 0 \/ Len(Valid(x)) = 0
    THEN ApplyUserLim(<<>>, lim, FALSE, NaN, NaN)
    ELSE ApplyUserLim(<< <<NanMin(x), NanMax(x)>> >>, lim, TRUE, NanMin(x), NanMax(x))

\* Floats are counted in a unit of 1/scale: the float v is the fraction
\* v * scale, so that values near np.isclose's absolute tolerance stay within
\* reach of the arithmetic.  scale = 1 counts in ones.

\* np.isclose(a, b): |a - b| <= atol + rtol * |b|, atol = 1e-8, rtol = 1e-5
IsCloseAt(scale, a, b) ==
    LET d == RAbs(RSub(a, b))
        m == RAbs(b)
    IN  RLe(RMul(d, Frac(100000000, scale)),
            RAdd(Frac(1, 1), RMul(m, Frac(1000, scale))))

IsClose(a, b) == IsCloseAt(1, a, b)

\* auto_pad_frac_x = 0.05, auto_pad_frac_y = 0.08
AutoPadFrac(axis) == IF axis = "x" THEN Frac(5, 100) ELSE Frac(8, 100)

\* the value _nice_auto_limits returns: None, or the pair (lo, hi)
NoLimits == [none |-> TRUE, lo |-> NaN, hi |-> NaN]
Limits(lo, hi) == [none |-> FALSE, lo |-> lo, hi |-> hi]

\* a mutant of the function: a flat range at zero is opened by 0.5 each way
NiceAutoLimitsHalf(scale, dmin0, dmax0, pad_frac, symmetric_if_cross_zero) ==
    IF dmin0.nan \/ dmax0.nan
    THEN NoLimits
    ELSE
    LET flat == IsCloseAt(scale, dmin0, dmax0)
        span0 == IF dmin0.num = 0 THEN Frac(scale, 2)
                 ELSE RMul(RAbs(dmin0), Frac(2, 10))
        dmin == IF flat THEN RSub(dmin0, span0) ELSE dmin0
        dmax == IF flat THEN RAdd(dmax0, span0) ELSE dmax0
    IN  IF symmetric_if_cross_zero /\ dmin.num < 0 /\ dmax.num > 0
        THEN LET m == RMax(RAbs(dmin), RAbs(dmax))
                 f == RAdd(Frac(1, 1), pad_frac)
             IN  Limits(RNeg(RMul(m, f)), RMul(m, f))
        ELSE LET span == RSub(dmax, dmin)
                 pad  == RMul(span, pad_frac)
             IN  Limits(RSub(dmin, pad), RAdd(dmax, pad))

\* a mutant of the function: the branch for ranges crossing zero is missing
NiceAutoLimitsPlain(scale, dmin0, dmax0, pad_frac, symmetric_if_cross_zero) ==
    IF dmin0.nan \/ dmax0.nan
    THEN NoLimits
    ELSE
    LET flat == IsCloseAt(scale, dmin0, dmax0)
        span0 == IF dmin0.num = 0 THEN Frac(scale, 1)
                 ELSE RMul(RAbs(dmin0), Frac(2, 10))
        dmin == IF flat THEN RSub(dmin0, span0) ELSE dmin0
        dmax == IF flat THEN RAdd(dmax0, span0) ELSE dmax0
    IN  LET span == RSub(dmax, dmin)
            pad  == RMul(span, pad_frac)
        IN  Limits(RSub(dmin, pad), RAdd(dmax, pad))

\* _nice_auto_limits(dmin, dmax, pad_frac, symmetric_if_cross_zero) of the
\* reference renderer; NaN stands for every non-finite argument
NiceAutoLimits(scale, dmin0, dmax0, pad_frac, symmetric_if_cross_zero) ==
    IF dmin0.nan \/ dmax0.nan
    THEN NoLimits
    ELSE
    LET flat == IsCloseAt(scale, dmin0, dmax0)
        span0 == IF dmin0.num = 0 THEN Frac(scale, 1)
                 ELSE RMul(RAbs(dmin0), Frac(2, 10))
        dmin == IF flat THEN RSub(dmin0, span0) ELSE dmin0
        dmax == IF flat THEN RAdd(dmax0, span0) ELSE dmax0
    IN  IF symmetric_if_cross_zero /\ dmin.num < 0 /\ dmax.num > 0
        THEN LET m == RMax(RAbs(dmin), RAbs(dmax))
                 f == RAdd(Frac(1, 1), pad_frac)
             IN  Limits(RNeg(RMul(m, f)), RMul(m, f))
        ELSE LET span == RSub(dmax, dmin)
                 pad  == RMul(span, pad_frac)
             IN  Limits(RSub(dmin, pad), RAdd(dmax, pad))

\* the call as the reference renderer makes it: symmetric_if_cross_zero =
\* True, dmin and dmax finite, floats counted in ones
_nice_auto_limits(dmin0, dmax0, pad_frac) ==
    <<NiceAutoLimits(1, dmin0, dmax0, pad_frac, TRUE).lo,
      NiceAutoLimits(1, dmin0, dmax0, pad_frac, TRUE).hi>>

\* reference renderer: nothing of the limit stage sits in a try block except
\* the nanmin/nanmax of x.  has: are dmin/dmax not None; dmin/dmax may be NaN
RefApplyLim(lim, has, dmin, dmax, pad_frac) ==
    LET norm == _normalize_lim(lim, IF has THEN Some(dmin) ELSE NoneV,
                               IF has THEN Some(dmax) ELSE NoneV)
    IN  IF norm.raised
        THEN AxisOutcome("done", TRUE, <<>>)
        ELSE IF ~norm.none
        THEN IF SetLimRaises(norm.lo, norm.hi)
             THEN AxisOutcome("done", TRUE, <<>>)
             ELSE AxisOutcome("done", FALSE, << <<norm.lo, norm.hi>> >>)
        ELSE IF has
        THEN IF dmin.nan \/ dmax.nan
             THEN AxisOutcome("done", TRUE, <<>>)
             ELSE AxisOutcome("done", FALSE, <<_nice_auto_limits(dmin, dmax, pad_frac)>>)
        ELSE AxisOutcome("done", FALSE, <<>>)

\* x_min = float(np.nanmin(x)) raises on an empty column (caught: None) and
\* is NaN on an all-NaN column
RefResolveX(x, lim) ==
    IF Len(x) = 0
    THEN RefApplyLim(lim, FALSE, NaN, NaN, AutoPadFrac("x"))
    ELSE IF Len(Valid(x)) = 0
    THEN RefApplyLim(lim, TRUE, NaN, NaN, AutoPadFrac("x"))
    ELSE RefApplyLim(lim, TRUE, NanMin(x), NanMax(x), AutoPadFrac("x"))

\* y_all_min = min(y_all_min, float(np.nanmin(y))) for every series: raises
\* on an empty series, keeps the running value on an all-NaN one
RefResolveY(ys, lim) ==
    IF \E i \in 1..Len(ys) : Len(ys[i]) = 0
    THEN AxisOutcome("done", TRUE, <<>>)
    ELSE LET e == AccumExtremes(ys, Len(ys))
         IN  RefApplyLim(lim, e.finite, e.min, e.max, AutoPadFrac("y"))

\* the limit stage of one axis of one renderer; data: the plotted series of
\* that axis (the x column, or the y series)
ResolveAxis(renderer, axis, data, lim) ==
    IF renderer = "timeseries"
    THEN IF axis = "x" THEN ResolveTimeX(data[1], lim) ELSE ResolveAccumAxis(data, lim)
    ELSE IF renderer = "hysteresis"
    THEN ResolveAccumAxis(data, lim)
    ELSE IF axis = "x" THEN RefResolveX(data[1], lim) ELSE RefResolveY(data, lim)

Renderers == {"timeseries", "hysteresis", "reference"}

\* ends a user gives for an axis
LimEnds == {NoneV, Some(Num(-1)), Some(Num(0)), Some(Num(3))}

LimInputs == {LimNone, LimMalformed} \cup {LimPair(lo, hi) : lo \in LimEnds, hi \in LimEnds}

InitLim ==
    /\ \E r \in Renderers, a \in {"x", "y"}, y \in SeriesInputs, lim \in LimInputs :
        lim_in = [renderer |-> r, axis |-> a, data |-> <<y>>, lim |-> lim]
    /\ lim_out = AxisOutcome("pending", FALSE, <<>>)
    /\ IdleAnnot
    /\ IdleSmooth
    /\ IdleTS
    /\ IdleBox
    /\ IdleProc
    /\ IdleConc

\* the axis-limit stage of the render
ResolveLimits ==
    /\ lim_out.status = "pending"
    /\ lim_out' = ResolveAxis(lim_in.renderer, lim_in.axis, lim_in.data, lim_in.lim)
    /\ UNCHANGED lim_in
    /\ UNCHANGED <<annotVars, smoothVars, tsVars, boxVars, procVars, concVars>>

NextLim == ResolveLimits

SpecLim == InitLim /\ [][NextLim]_vars

----------------------------------------------------------------------------
(* _nice_auto_limits on its own *)

\* largest magnitude, in units, of the data extremes handed to the function
MaxMag == 3

\* units per 1.0: ones, and 2.5e-9 (np.isclose's absolute tolerance 1e-8 is
\* then 4 units)
Scales == {1, 400000000}

\* the extremes of a column: nanmin <= nanmax, or both NaN
ExtremePairs ==
    {<<NaN, NaN>>} \cup
    UNION {{<<Num(a), Num(b)>> : b \in a..MaxMag} : a \in (0 - MaxMag)..MaxMag}

\* the calls drawn: every scale and pair, except a range from 0 up to a
\* value below the tolerance, whose result (1 + that value, padded) has no
\* fraction within the integers of the arithmetic
AutoInputs ==
    {[scale |-> sc, dmin |-> e[1], dmax |-> e[2],
      pad_frac |-> AutoPadFrac(ax), symmetric_if_cross_zero |-> sym] :
        sc \in Scales, e \in ExtremePairs, ax \in {"x", "y"}, sym \in BOOLEAN} \
    {[scale |-> sc, dmin |-> Num(0), dmax |-> Num(b),
      pad_frac |-> AutoPadFrac(ax), symmetric_if_cross_zero |-> sym] :
        sc \in Scales \ {1}, b \in 1..MaxMag, ax \in {"x", "y"}, sym \in BOOLEAN}

InitAuto ==
    /\ lim_in \in AutoInputs
    /\ lim_out = [status |-> "pending", limits |-> NoLimits]
    /\ IdleAnnot
    /\ IdleSmooth
    /\ IdleTS
    /\ IdleBox
    /\ IdleProc
    /\ IdleConc

\* one call _nice_auto_limits(dmin, dmax, pad_frac, symmetric_if_cross_zero)
AutoLimits ==
    /\ lim_out.status = "pending"
    /\ lim_out' = [status |-> "done",
                   limits |-> NiceAutoLimits(lim_in.scale, lim_in.dmin, lim_in.dmax,
                                             lim_in.pad_frac,
                                             lim_in.symmetric_if_cross_zero)]
    /\ UNCHANGED lim_in
    /\ UNCHANGED <<annotVars, smoothVars, tsVars, boxVars, procVars, concVars>>

NextAuto == AutoLimits

SpecAuto == InitAuto /\ [][NextAuto]_vars

----------------------------------------------------------------------------
(* Peak annotation and metrics box of a plotted series *)

\* np.argmax over |y| with NaN replaced by -inf: the first index (1-based
\* here) holding the maximum
RECURSIVE ArgMaxScan(_, _, _)
ArgMaxScan(y, i, best) ==
    IF i > Len(y) THEN best
    ELSE LET better == ~y[i].nan /\ (y[best].nan \/ RLt(RAbs(y[best]), RAbs(y[i])))
         IN  ArgMaxScan(y, i + 1, IF better THEN i ELSE best)

\* a mutant of the scan: a later sample of equal magnitude replaces the best
RECURSIVE ArgMaxScanLast(_, _, _)
ArgMaxScanLast(y, i, best) ==
    IF i > Len(y) THEN best
    ELSE LET better == ~y[i].nan /\ (y[best].nan \/ RLe(RAbs(y[best]), RAbs(y[i])))
         IN  ArgMaxScanLast(y, i + 1, IF better THEN i ELSE best)

NanArgMaxAbsLast(y) ==
    IF Len(Valid(y)) = 0
    THEN [raised |-> TRUE, idx |-> 0]
    ELSE [raised |-> FALSE, idx |-> ArgMaxScanLast(y, 2, 1) - 1]

\* int(np.nanargmax(np.abs(y))): ValueError on an empty or all-NaN series,
\* else the 0-based index
NanArgMaxAbs(y) ==
    IF Len(Valid(y)) = 0
    THEN [raised |-> TRUE, idx |-> 0]
    ELSE [raised |-> FALSE, idx |-> ArgMaxScan(y, 2, 1) - 1]

\* position of a data value on the canvas, in points (xycoords="data")
DataToPt(v) == (v.num * 20) \div v.den

\* rendered size, in points, of the label text "label：value"
LabelSize(yv) == <<IF yv.num < 0 THEN 70 ELSE 64, 14>>

\* one _annotate_absmax call on the axes
_annotate_absmax(fig, used, x, y, res, withArrow) ==
    LET am == NanArgMaxAbs(y)
    IN  IF am.raised
        THEN [raised |-> TRUE, idx |-> 0, fig |-> fig, used |-> used,
              off |-> <<0, 0>>, fallback |-> FALSE]
        ELSE LET xv == x[am.idx + 1]
                 yv == y[am.idx + 1]
                 r  == _place_annot_no_overlap(fig, used, <<DataToPt(xv), DataToPt(yv)>>,
                                               LabelSize(yv), res, withArrow)
             IN  [raised |-> FALSE, idx |-> am.idx, fig |-> r.fig, used |-> r.used,
                  off |-> r.ann.off, fallback |-> r.fallback]

RDiv(a, b) == Frac(a.num * b.den, a.den * b.num)

\* peak(a) = float(np.nanmax(np.abs(a))): ValueError on an empty series, NaN
\* on an all-NaN one
PeakAbs(a) ==
    IF Len(a) = 0 THEN [raised |-> TRUE, v |-> NaN]
    ELSE IF Len(Valid(a)) = 0 THEN [raised |-> FALSE, v |-> NaN]
    ELSE [raised |-> FALSE, v |-> RAbs(Valid(a)[ArgMaxScan(Valid(a), 2, 1)])]

\* 1e-12 counted in the unit 10^-exp of the samples: 10 units of 1e-13; with
\* exp = 0 it lies below every positive fraction of the model, whose
\* denominators stay far below 1e12, and above zero
Threshold(exp) == IF exp = 13 THEN Frac(10, 1) ELSE Frac(0, 1)

\* p1 > 1e-12
AboveThreshold(exp, p1) == ~p1.nan /\ RLt(Threshold(exp), p1)

\* a mutant of AddPeakMetricsBox: the guard is p1 >= 1e-12
AddPeakMetricsBoxAtLeast(exp, y_ref, y_cmp) ==
    LET p1 == PeakAbs(y_ref)
        p2 == PeakAbs(y_cmp)
    IN  IF p1.raised \/ p2.raised
        THEN [raised |-> TRUE, box |-> NoMetrics]
        ELSE [raised |-> FALSE,
              box |-> [drawn |-> TRUE, p1 |-> p1.v, p2 |-> p2.v,
                       peak_drop |->
                           IF ~p1.v.nan /\ RLe(Frac(10, 1), p1.v)
                           THEN IF p2.v.nan THEN NaN
                                ELSE RMul(Frac(100, 1),
                                          RSub(Frac(1, 1), RDiv(p2.v, p1.v)))
                           ELSE NaN]]

\* the numbers of the metrics box, for samples counted in units of 10^-exp:
\* p1, p2 = peak(y_ref), peak(y_cmp); peak_drop = np.nan;
\* if p1 > 1e-12: peak_drop = 100.0 * (1.0 - p2 / p1)
AddPeakMetricsBox(exp, y_ref, y_cmp) ==
    LET p1 == PeakAbs(y_ref)
        p2 == PeakAbs(y_cmp)
    IN  IF p1.raised \/ p2.raised
        THEN [raised |-> TRUE, box |-> NoMetrics]
        ELSE [raised |-> FALSE,
              box |-> [drawn |-> TRUE, p1 |-> p1.v, p2 |-> p2.v,
                       peak_drop |->
                           IF AboveThreshold(exp, p1.v)
                           THEN IF p2.v.nan THEN NaN
                                ELSE RMul(Frac(100, 1),
                                          RSub(Frac(1, 1), RDiv(p2.v, p1.v)))
                           ELSE NaN]]

\* the metrics box of a render, whose samples are plain numbers
_add_peak_metrics_box(y_ref, y_cmp) == AddPeakMetricsBox(0, y_ref, y_cmp)

----------------------------------------------------------------------------
(* _add_peak_metrics_box on its own *)

\* samples of the reference and of the comparison series
RefSamples == {NaN, Num(0), Num(10), Num(-10), Num(11)}
CmpSamples == {NaN, Num(0), Num(5), Num(-5)}

InitMetrics ==
    /\ \E exp \in {0, 13}, y_ref \in SeqsUpTo(RefSamples, MaxRows),
          y_cmp \in SeqsUpTo(CmpSamples, MaxRows) :
        mb_in = [exp |-> exp, y_ref |-> y_ref, y_cmp |-> y_cmp]
    /\ mb_out = [status |-> "pending", raised |-> FALSE, box |-> NoMetrics]
    /\ IdleAnnot
    /\ IdleSmooth
    /\ IdleLim
    /\ IdleTS
    /\ IdleProc
    /\ IdleConc

\* one call _add_peak_metrics_box(ax, y_ref, y_cmp)
MetricsBox ==
    /\ mb_out.status = "pending"
    /\ mb_out' = [status |-> "done",
                  raised |-> AddPeakMetricsBox(mb_in.exp, mb_in.y_ref, mb_in.y_cmp).raised,
                  box |-> AddPeakMetricsBox(mb_in.exp, mb_in.y_ref, mb_in.y_cmp).box]
    /\ UNCHANGED mb_in
    /\ UNCHANGED <<annotVars, smoothVars, limVars, tsVars, procVars, concVars>>

NextMetrics == MetricsBox

SpecMetrics == InitMetrics /\ [][NextMetrics]_vars

----------------------------------------------------------------------------
(* Time-series chart *)

\* for i, col in enumerate(series_cols): df[col], smooth, ax.plot(x, y).
\* df[col] raises KeyError on a column the dataset lacks (absent holds the
\* positions of those columns), ax.plot raises ValueError when x and y differ
\* in length.
RECURSIVE PlotLoop(_, _, _, _, _, _)
PlotLoop(i, lines, x, ys, absent, params) ==
    IF i > Len(ys) THEN [raised |-> FALSE, stage |-> "", lines |-> lines]
    ELSE IF i \in absent
    THEN [raised |-> TRUE, stage |-> "column", lines |-> lines]
    ELSE LET sm == _smooth_series(ys[i], params.smooth, params.smooth_kwargs, FALSE)
         IN  IF sm.raised
             THEN [raised |-> TRUE, stage |-> "smooth", lines |-> lines]
             ELSE IF Len(sm.y) # Len(x)
             THEN [raised |-> TRUE, stage |-> "plot", lines |-> lines]
             ELSE PlotLoop(i + 1, Append(lines, sm.y), x, ys, absent, params)

\* used_bboxes = []; for (lab, x_data, y_data, line) in plotted:
\*     _annotate_absmax(...)
RECURSIVE AnnotLoop(_, _, _, _, _, _, _, _)
AnnotLoop(i, fig, used, annots, x, lines, res, withArrow) ==
    IF i > Len(lines) THEN [raised |-> FALSE, annots |-> annots, used |-> used]
    ELSE LET a == _annotate_absmax(fig, used, x, lines[i], res, withArrow)
         IN  IF a.raised
             THEN [raised |-> TRUE, annots |-> annots, used |-> used]
             ELSE AnnotLoop(i + 1, a.fig, a.used,
                            Append(annots, [series |-> i, idx |-> a.idx, off |-> a.off,
                                            bb |-> a.used[Len(a.used)],
                                            fallback |-> a.fallback]),
                            x, lines, res, withArrow)

\* int(params.get("dpi", default))
EffDpi(params, default) == IF params.dpi = 0 THEN default ELSE params.dpi

\* what the stages after the plot loop leave of the figure: pl the plot loop,
\* xl and yl the limit stages, an the annotation loop, mb the metrics box.  A
\* stage that raises ends the render; nothing of the later stages is kept.
RenderStages(pl, xl, yl, an, mb, res) ==
    IF pl.raised
    THEN Figure(TRUE, pl.stage, res, pl.lines, <<>>, <<>>, <<>>, NoMetrics)
    ELSE IF an.raised
    THEN Figure(TRUE, "annotate", res, pl.lines, xl.applied, yl.applied,
                an.annots, NoMetrics)
    ELSE IF mb.raised
    THEN Figure(TRUE, "metrics", res, pl.lines, xl.applied, yl.applied,
                an.annots, NoMetrics)
    ELSE Figure(FALSE, "", res, pl.lines, xl.applied, yl.applied, an.annots, mb.box)

\* the stages run on the plotted lines: x and y limits, peak annotations
\* (annotate_peaks), metrics box (metrics_box and at least two series)
RenderPlotted(pl, df, params, res, withArrow) ==
    RenderStages(pl,
                 ResolveTimeX(df.x, params.xlim),
                 ResolveAccumAxis(pl.lines, params.ylim),
                 IF params.annotate_peaks
                 THEN AnnotLoop(1, <<>>, <<>>, <<>>, df.x, pl.lines, res, withArrow)
                 ELSE [raised |-> FALSE, annots |-> <<>>, used |-> <<>>],
                 IF params.metrics_box /\ Len(pl.lines) >= 2
                 THEN _add_peak_metrics_box(pl.lines[1], pl.lines[2])
                 ELSE [raised |-> FALSE, box |-> NoMetrics],
                 res)

\* the figure both plot_timeseries_preview and the second half of
\* plot_timeseries_export build, up to fig.tight_layout().  x = df[time_col]
\* raises KeyError when the dataset lacks the time column (position 0).
RenderTimeseries(df, params, res, withArrow) ==
    IF 0 \in df.absent
    THEN Figure(TRUE, "column", res, <<>>, <<>>, <<>>, <<>>, NoMetrics)
    ELSE RenderPlotted(PlotLoop(1, <<>>, df.x, df.ys, df.absent, params),
                       df, params, res, withArrow)

\* export_formats default
DefaultFormats == <<"png", "pdf", "svg">>

\* a mutant of _encode_fig_png: the image is saved to a file and read back
EncodeFigPngToFile(fig, st) ==
    [data_url |-> fig,
     store |-> Store(st.dirs \cup {"tmp"},
                     st.files \cup {[dir |-> "tmp", stem |-> <<"preview", "png">>, ext |-> "png"]},
                     st.zips)]

\* buf = io.BytesIO(); fig.savefig(buf, format="png", ...); base64 of
\* buf.getvalue(): the image is encoded in memory, the storage is as it was
_encode_fig_png(fig, st) == [data_url |-> fig, store |-> st]

\* the storage after the preview of the figure f: a render that raised never
\* reaches _encode_fig_png
PreviewStorage(f, st) == IF f.raised THEN st ELSE _encode_fig_png(f, st).store

\* the response of the preview for the figure f: the encoded image, or the
\* exception with the figure left open
PreviewResponse(f) ==
    IF f.raised
    THEN Response("raised", f.stage, NoFigure, <<>>, <<>>, 1)
    ELSE Response("ok", "", f, <<>>, <<>>, 0)

plot_timeseries_preview(df, params, withArrow) ==
    PreviewResponse(RenderTimeseries(df, params, EffDpi(params, 120), withArrow))

\* formats fig.savefig can write; any other extension raises ValueError
\* before a file is opened
SupportedFormats == {"png", "pdf", "svg", "jpg", "eps"}

\* os.path.join(save_dir, f"{filename_base}.{ext}")
Path(dir, stem, ext) == [dir |-> dir, stem |-> stem, ext |-> ext]

\* os.path.basename(p)
Basename(p) == [stem |-> p.stem, ext |-> p.ext]

\* a mutant of SaveLoop: each path is put in front of the list
RECURSIVE SaveLoopReversed(_, _, _, _, _, _, _)
SaveLoopReversed(i, st, paths, save_dir, filename_base, formats, io) ==
    IF i > Len(formats)
    THEN [raised |-> FALSE, stage |-> "", store |-> st, paths |-> paths]
    ELSE LET path == Path(save_dir, filename_base, formats[i])
             written == Store(st.dirs, st.files \cup {path}, st.zips)
         IN  IF formats[i] \notin SupportedFormats
             THEN [raised |-> TRUE, stage |-> "savefig", store |-> st, paths |-> paths]
             ELSE IF io.kind = "savefig" /\ io.at = i
             THEN [raised |-> TRUE, stage |-> "savefig",
                   store |-> IF io.partial THEN written ELSE st, paths |-> paths]
             ELSE SaveLoopReversed(i + 1, written, <<path>> \o paths,
                                   save_dir, filename_base, formats, io)

\* for ext in formats: path = ...; fig.savefig(path); paths.append(path)
RECURSIVE SaveLoop(_, _, _, _, _, _, _)
SaveLoop(i, st, paths, save_dir, filename_base, formats, io) ==
    IF i > Len(formats)
    THEN [raised |-> FALSE, stage |-> "", store |-> st, paths |-> paths]
    ELSE LET path == Path(save_dir, filename_base, formats[i])
             written == Store(st.dirs, st.files \cup {path}, st.zips)
         IN  IF formats[i] \notin SupportedFormats
             THEN [raised |-> TRUE, stage |-> "savefig", store |-> st, paths |-> paths]
             ELSE IF io.kind = "savefig" /\ io.at = i
             THEN [raised |-> TRUE, stage |-> "savefig",
                   store |-> IF io.partial THEN written ELSE st, paths |-> paths]
             ELSE SaveLoop(i + 1, written, Append(paths, path),
                           save_dir, filename_base, formats, io)

\* os.makedirs(save_dir, exist_ok=True), then one savefig per entry
_save_multi_formats(st, save_dir, filename_base, formats, io) ==
    IF io.kind = "makedirs"
    THEN [raised |-> TRUE, stage |-> "makedirs", store |-> st, paths |-> <<>>]
    ELSE SaveLoop(1, Store(st.dirs \cup {save_dir}, st.files, st.zips), <<>>,
                  save_dir, filename_base, formats, io)

\* ZipFile(zip_out, "w") replaces an archive already at that path
ReplaceZip(zips, zip_out, entries) ==
    {z \in zips : z.path # zip_out} \cup {[path |-> zip_out, entries |-> entries]}

\* a mutant of _zip_files: entries are named by their full path
ZipFilesFullPath(st, filepaths, zip_out, io) ==
    IF io.kind = "zipopen"
    THEN [raised |-> TRUE, store |-> st]
    ELSE IF io.kind = "zipwrite"
    THEN [raised |-> TRUE,
          store |-> Store(st.dirs, st.files, ReplaceZip(st.zips, zip_out, <<>>))]
    ELSE [raised |-> FALSE,
          store |-> Store(st.dirs, st.files,
                          ReplaceZip(st.zips, zip_out,
                                     [j \in 1..Len(filepaths) |-> filepaths[j]]))]

\* with ZipFile(zip_out, "w") as zf: for p in filepaths:
\*     zf.write(p, arcname=os.path.basename(p))
\* a fault while entries are written leaves an incomplete archive behind
_zip_files(st, filepaths, zip_out, io) ==
    IF io.kind = "zipopen"
    THEN [raised |-> TRUE, store |-> st]
    ELSE IF io.kind = "zipwrite"
    THEN [raised |-> TRUE,
          store |-> Store(st.dirs, st.files, ReplaceZip(st.zips, zip_out, <<>>))]
    ELSE [raised |-> FALSE,
          store |-> Store(st.dirs, st.files,
                          ReplaceZip(st.zips, zip_out,
                                     [j \in 1..Len(filepaths) |-> Basename(filepaths[j])]))]

\* params.get("save_dir", os.path.join("exports", <today>))
SaveDir(params) == IF params.save_dir = "" THEN "exports/today" ELSE params.save_dir

\* params.get("filename_base", f"{kind}_{now}")
FilenameBase(params, kind, now) ==
    IF params.filename_base = <<>> THEN <<kind, now>> ELSE params.filename_base

\* params.get("export_formats", ["png", "pdf", "svg"])
ExportFormats(params) ==
    IF params.export_formats.given THEN params.export_formats.v ELSE DefaultFormats

\* the archive is written only after every format file was
ZipAfterSave(sv, zip_out, io) ==
    IF sv.raised
    THEN [raised |-> FALSE, store |-> sv.store]
    ELSE _zip_files(sv.store, sv.paths, zip_out, io)

\* a mutant of ExportResponse: the format files are written before the
\* columns are read
ExportResponseSaveFirst(res_prev, f, sv, zp, zip_out, st) ==
    IF res_prev.status = "raised"
    THEN [rs |-> res_prev, store |-> sv.store]
    ELSE IF f.raised
    THEN [rs |-> Response("raised", f.stage, NoFigure, <<>>, <<>>, 1), store |-> st]
    ELSE IF sv.raised
    THEN [rs |-> Response("raised", sv.stage, NoFigure, <<>>, <<>>, 1),
          store |-> sv.store]
    ELSE IF zp.raised
    THEN [rs |-> Response("raised", "zip", NoFigure, <<>>, <<>>, 0),
          store |-> zp.store]
    ELSE [rs |-> Response("ok", "", res_prev.preview_data_url, sv.paths, zip_out, 0),
          store |-> zp.store]

\* a mutant of ExportResponse: the archive is written of whatever files were
\* saved, also after a format failed
ExportResponseZipAnyway(res_prev, f, sv, zp, zip_out, st) ==
    IF res_prev.status = "raised"
    THEN [rs |-> res_prev, store |-> st]
    ELSE IF f.raised
    THEN [rs |-> Response("raised", f.stage, NoFigure, <<>>, <<>>, 1), store |-> st]
    ELSE IF sv.raised
    THEN [rs |-> Response("raised", sv.stage, NoFigure, <<>>, <<>>, 1),
          store |-> _zip_files(sv.store, sv.paths, zip_out, NoFault).store]
    ELSE IF zp.raised
    THEN [rs |-> Response("raised", "zip", NoFigure, <<>>, <<>>, 0),
          store |-> zp.store]
    ELSE [rs |-> Response("ok", "", res_prev.preview_data_url, sv.paths, zip_out, 0),
          store |-> zp.store]

\* the response of the export and the storage it leaves: res_prev the preview
\* made first, f the figure rendered again for the files, sv the format
\* files, zp the archive.  plt.close(fig) sits between the two, so a raise
\* before it leaves the figure open.
ExportResponse(res_prev, f, sv, zp, zip_out, st) ==
    IF res_prev.status = "raised"
    THEN [rs |-> res_prev, store |-> st]
    ELSE IF f.raised
    THEN [rs |-> Response("raised", f.stage, NoFigure, <<>>, <<>>, 1), store |-> st]
    ELSE IF sv.raised
    THEN [rs |-> Response("raised", sv.stage, NoFigure, <<>>, <<>>, 1),
          store |-> sv.store]
    ELSE IF zp.raised
    THEN [rs |-> Response("raised", "zip", NoFigure, <<>>, <<>>, 0),
          store |-> zp.store]
    ELSE [rs |-> Response("ok", "", res_prev.preview_data_url, sv.paths, zip_out, 0),
          store |-> zp.store]

\* save_dir, filename_base, formats; _save_multi_formats; plt.close;
\* zip_path; _zip_files; return
ExportStorage(res_prev, f, sv, zip_out, st, io) ==
    ExportResponse(res_prev, f, sv, ZipAfterSave(sv, zip_out, io), zip_out, st)

\* preview with dpi defaulted to 600, then the render again, the format
\* files, plt.close, the archive
plot_timeseries_export(df, params, withArrow, st, env) ==
    ExportStorage(plot_timeseries_preview(df, [params EXCEPT !.dpi = EffDpi(params, 600)],
                                          withArrow),
                  RenderTimeseries(df, params, EffDpi(params, 600), withArrow),
                  _save_multi_formats(st, SaveDir(params),
                                      FilenameBase(params, "timeseries", env.now),
                                      ExportFormats(params), env.io),
                  Path(SaveDir(params), FilenameBase(params, "timeseries", env.now), "zip"),
                  st, env.io)

\* the time column: 0, 1, ..., n - 1
Ramp(n) == [i \in 1..n |-> Num(i - 1)]

\* datasets of the spec's examples
ExampleSeries ==
    { <<Num(-3), Num(5), Num(-7), Num(2)>>,
      <<Num(0), Num(1), Num(0), Num(-1), Num(0)>> }

\* cell values of the first series column and of the further ones
RenderSamples == {NaN, Num(-2), Num(1)}
OtherSamples == {NaN, Num(1)}

\* a reference, a comparison and a third series
ThreeSeries ==
    [x |-> Ramp(2),
     ys |-> << <<Num(10), Num(-10)>>, <<Num(5), Num(-5)>>, <<Num(1), Num(1)>> >>,
     absent |-> {}]

Datasets ==
    UNION {{[x |-> Ramp(n), ys |-> <<y1>> \o rest, absent |-> {}] :
                y1 \in [1..n -> RenderSamples],
                rest \in [1..(c - 1) -> [1..n -> OtherSamples]]} :
              n \in 0..MaxRows, c \in 1..MaxSeries} \cup
    {[x |-> Ramp(Len(y)), ys |-> <<y>>, absent |-> {}] : y \in ExampleSeries} \cup
    {ThreeSeries}

ParamInputs ==
    {TSParams(sm, 3, an, mb, LimNone, yl) :
        sm \in {"none", "ma"}, an \in BOOLEAN, mb \in BOOLEAN,
        yl \in {LimNone, LimPair(NoneV, NoneV)}}

InitTS ==
    /\ \E m \in {"preview", "export"}, df \in Datasets, pr \in ParamInputs :
        rq = [mode |-> m, chart |-> "timeseries", df |-> df, params |-> pr,
              env |-> Env("t0", NoFault), store0 |-> EmptyStore]
    /\ rs = NoResponse
    /\ store = EmptyStore
    /\ IdleAnnot
    /\ IdleSmooth
    /\ IdleLim
    /\ IdleBox
    /\ IdleProc
    /\ IdleConc

\* a preview request served by plot_timeseries_preview
PreviewTimeseries ==
    /\ rs = NoResponse
    /\ rq.mode = "preview"
    /\ rq.chart = "timeseries"
    /\ \E withArrow \in BOOLEAN :
        /\ rs' = plot_timeseries_preview(rq.df, rq.params, withArrow)
        /\ store' = PreviewStorage(RenderTimeseries(rq.df, rq.params,
                                                    EffDpi(rq.params, 120), withArrow),
                                   store)
    /\ UNCHANGED rq
    /\ Process(rs')
    /\ UNCHANGED <<annotVars, smoothVars, limVars, boxVars, concVars>>

\* what an export call hands back and leaves on the storage
Exported(out) ==
    /\ rs' = out.rs
    /\ store' = out.store

\* an export request served by plot_timeseries_export
ExportTimeseries ==
    /\ rs = NoResponse
    /\ rq.mode = "export"
    /\ rq.chart = "timeseries"
    /\ \E withArrow \in BOOLEAN :
        Exported(plot_timeseries_export(rq.df, rq.params, withArrow, store, rq.env))
    /\ UNCHANGED rq
    /\ Process(rs')
    /\ UNCHANGED <<annotVars, smoothVars, limVars, boxVars, concVars>>

NextTS == PreviewTimeseries \/ ExportTimeseries

SpecTS == InitTS /\ [][NextTS]_vars

----------------------------------------------------------------------------
(* Hysteresis chart *)

\* params of a hysteresis request; dpi = 0: the key is absent
HysParams(smooth, k, xlim, ylim) ==
    [smooth |-> smooth, smooth_kwargs |-> [DefaultKwargs EXCEPT !.k = k],
     xlim |-> xlim, ylim |-> ylim, dpi |-> 0,
     save_dir |-> "", filename_base |-> <<>>,
     export_formats |-> [given |-> FALSE, v |-> <<>>]]

\* x_all_min/x_all_max are narrowed once per plotted series, always by the
\* same x column
XPerLine(x, lines) == [i \in 1..Len(lines) |-> x]

\* a mutant of the limit stage: the x spec is resolved against the y series
HysPlottedCrossed(pl, df, params, res) ==
    IF pl.raised
    THEN Figure(TRUE, pl.stage, res, pl.lines, <<>>, <<>>, <<>>, NoMetrics)
    ELSE Figure(FALSE, "", res, pl.lines,
                ResolveAccumAxis(pl.lines, params.xlim).applied,
                ResolveAccumAxis(pl.lines, params.ylim).applied,
                <<>>, NoMetrics)

\* the stages after the plot loop: the x limits from the x extremes, the y
\* limits from the extremes of the plotted series
HysPlotted(pl, df, params, res) ==
    IF pl.raised
    THEN Figure(TRUE, pl.stage, res, pl.lines, <<>>, <<>>, <<>>, NoMetrics)
    ELSE Figure(FALSE, "", res, pl.lines,
                ResolveAccumAxis(XPerLine(df.x, pl.lines), params.xlim).applied,
                ResolveAccumAxis(pl.lines, params.ylim).applied,
                <<>>, NoMetrics)

\* the figure plot_hysteresis_preview and the second half of
\* plot_hysteresis_export build, up to fig.tight_layout().
\* x = pd.to_numeric(df[x_col]) raises KeyError when the dataset lacks the x
\* column (position 0).
RenderHysteresis(df, params, res) ==
    IF 0 \in df.absent
    THEN Figure(TRUE, "column", res, <<>>, <<>>, <<>>, <<>>, NoMetrics)
    ELSE HysPlotted(PlotLoop(1, <<>>, df.x, df.ys, df.absent, params), df, params, res)

plot_hysteresis_preview(df, params) ==
    PreviewResponse(RenderHysteresis(df, params, EffDpi(params, 120)))

\* preview with dpi defaulted to 600, then the render again, the format
\* files, plt.close, the archive
plot_hysteresis_export(df, params, st, env) ==
    ExportStorage(plot_hysteresis_preview(df, [params EXCEPT !.dpi = EffDpi(params, 600)]),
                  RenderHysteresis(df, params, EffDpi(params, 600)),
                  _save_multi_formats(st, SaveDir(params),
                                      FilenameBase(params, "hysteresis", env.now),
                                      ExportFormats(params), env.io),
                  Path(SaveDir(params), FilenameBase(params, "hysteresis", env.now), "zip"),
                  st, env.io)

\* x columns of n rows: -1, 0, 1, ...; the same with the first cell not a
\* number; no number at all
XColumns(n) ==
    { [i \in 1..n |-> Num(i - 2)],
      [i \in 1..n |-> IF i = 1 THEN NaN ELSE Num(i - 2)],
      [i \in 1..n |-> NaN] }

\* further y columns of n rows: constant 1, or no number at all
FlatColumns(n) == { [i \in 1..n |-> Num(1)], [i \in 1..n |-> NaN] }

HysDatasets ==
    UNION {{[x |-> x, ys |-> <<y1>> \o rest, absent |-> {}] :
                x \in XColumns(n),
                y1 \in [1..n -> RenderSamples],
                rest \in [1..(c - 1) -> FlatColumns(n)]} :
              n \in 0..MaxRows, c \in 1..MaxSeries}

\* axis-limit specs of the hysteresis requests
HysXLims ==
    {LimNone, LimPair(NoneV, NoneV), LimPair(Some(Num(0)), NoneV),
     LimPair(NoneV, Some(Num(3)))}
HysYLims ==
    {LimNone, LimPair(NoneV, Some(Num(3))), LimPair(Some(Num(-1)), Some(Num(0)))}

HysParamInputs ==
    {HysParams(sm, 2, xl, yl) : sm \in {"none", "ma"}, xl \in HysXLims, yl \in HysYLims}

InitHys ==
    /\ \E m \in {"preview", "export"}, df \in HysDatasets, pr \in HysParamInputs :
        rq = [mode |-> m, chart |-> "hysteresis", df |-> df, params |-> pr,
              env |-> Env("t0", NoFault), store0 |-> EmptyStore]
    /\ rs = NoResponse
    /\ store = EmptyStore
    /\ IdleAnnot
    /\ IdleSmooth
    /\ IdleLim
    /\ IdleBox
    /\ IdleProc
    /\ IdleConc

\* a preview request served by plot_hysteresis_preview
PreviewHysteresis ==
    /\ rs = NoResponse
    /\ rq.mode = "preview"
    /\ rq.chart = "hysteresis"
    /\ rs' = plot_hysteresis_preview(rq.df, rq.params)
    /\ store' = PreviewStorage(RenderHysteresis(rq.df, rq.params, EffDpi(rq.params, 120)),
                               store)
    /\ UNCHANGED rq
    /\ Process(rs')
    /\ UNCHANGED <<annotVars, smoothVars, limVars, boxVars, concVars>>

\* an export request served by plot_hysteresis_export
ExportHysteresis ==
    /\ rs = NoResponse
    /\ rq.mode = "export"
    /\ rq.chart = "hysteresis"
    /\ Exported(plot_hysteresis_export(rq.df, rq.params, store, rq.env))
    /\ UNCHANGED rq
    /\ Process(rs')
    /\ UNCHANGED <<annotVars, smoothVars, limVars, boxVars, concVars>>

NextHys == PreviewHysteresis \/ ExportHysteresis

SpecHys == InitHys /\ [][NextHys]_vars

----------------------------------------------------------------------------
(* Export requests on a storage that may fail *)

\* longest export_formats list of a request
MaxFormats == 2

\* entries of export_formats: two formats savefig writes and one it does not
FormatNames == {"png", "svg", "xyz"}

FormatInputs ==
    {[given |-> FALSE, v |-> <<>>]} \cup
    {[given |-> TRUE, v |-> fs] : fs \in SeqsUpTo(FormatNames, MaxFormats)}

\* datasets of two rows with c series columns, and the same with the x/time
\* column or the last series column missing
ExportDataset(c, absent) ==
    [x |-> Ramp(2), ys |-> [i \in 1..c |-> <<Num(-2), Num(1)>>], absent |-> absent]

\* dataset and axis-limit specs of a request: sound ones, a malformed xlim or
\* ylim on a sound dataset, a missing column
ExportCases ==
    UNION {{<<ExportDataset(c, {}), LimNone, LimNone>>,
            <<ExportDataset(c, {}), LimPair(Some(Num(0)), Some(Num(3))), LimNone>>,
            <<ExportDataset(c, {}), LimMalformed, LimNone>>,
            <<ExportDataset(c, {}), LimNone, LimMalformed>>,
            <<ExportDataset(c, {0}), LimNone, LimNone>>,
            <<ExportDataset(c, {c}), LimNone, LimNone>>} : c \in 1..MaxSeries}

\* params of an export request of a chart
ExportParams(chart, xlim, ylim, save_dir, filename_base, export_formats) ==
    [(IF chart = "timeseries"
      THEN TSParams("none", 5, FALSE, FALSE, xlim, ylim)
      ELSE HysParams("none", 5, xlim, ylim))
        EXCEPT !.save_dir = save_dir, !.filename_base = filename_base,
               !.export_formats = export_formats]

\* storage faults an export of n formats can meet
IOFaults(n) ==
    {NoFault, MkdirFault, ZipOpenFault, ZipWriteFault} \cup
    {SaveFault(i, p) : i \in 1..n, p \in BOOLEAN}

\* seconds of the wall clock at which a request is served
Clock == {"t0", "t1"}

\* the storage before the request: nothing, or the directories with the
\* files and the archive an earlier export of the same stem left
UsedStore ==
    Store({"out", "exports/today"},
          {Path("out", <<"user", "chart">>, "png")},
          {[path |-> Path("out", <<"user", "chart">>, "zip"),
            entries |-> <<Basename(Path("out", <<"user", "chart">>, "png"))>>]})

InitExport ==
    /\ \E chart \in {"timeseries", "hysteresis"}, cs \in ExportCases,
          dir \in {"", "out"}, stem \in {<<>>, <<"user", "chart">>},
          fm \in FormatInputs, st \in {EmptyStore, UsedStore} :
        LET pr == ExportParams(chart, cs[2], cs[3], dir, stem, fm)
        IN  /\ \E io \in IOFaults(Len(ExportFormats(pr))),
                  now \in (IF stem = <<>> THEN Clock ELSE {"t0"}) :
                rq = [mode |-> "export", chart |-> chart, df |-> cs[1], params |-> pr,
                      env |-> Env(now, io), store0 |-> st]
            /\ store = st
    /\ rs = NoResponse
    /\ IdleAnnot
    /\ IdleSmooth
    /\ IdleLim
    /\ IdleBox
    /\ IdleProc
    /\ IdleConc

NextExport == ExportTimeseries \/ ExportHysteresis

SpecExport == InitExport /\ [][NextExport]_vars

----------------------------------------------------------------------------
(* Preview requests on a storage that holds older exports *)

\* dataset and axis-limit specs of a preview: those of the exports, and a
\* series without a number (its peak annotation raises)
PreviewCases ==
    ExportCases \cup
    {<<[x |-> Ramp(2), ys |-> << <<NaN, NaN>> >>, absent |-> {}], LimNone, LimNone>>}

\* params of a preview request of a chart; res = 0: dpi is not given
PreviewParams(chart, xlim, ylim, annotate_peaks, metrics_box, res) ==
    [(IF chart = "timeseries"
      THEN TSParams("none", 5, annotate_peaks, metrics_box, xlim, ylim)
      ELSE HysParams("none", 5, xlim, ylim))
        EXCEPT !.dpi = res]

InitPreview ==
    /\ \E chart \in {"timeseries", "hysteresis"}, cs \in PreviewCases,
          an \in BOOLEAN, mb \in BOOLEAN, res \in {0, 300},
          st \in {EmptyStore, UsedStore} :
        /\ chart = "hysteresis" => ~an /\ ~mb
        /\ rq = [mode |-> "preview", chart |-> chart, df |-> cs[1],
                 params |-> PreviewParams(chart, cs[2], cs[3], an, mb, res),
                 env |-> Env("t0", NoFault), store0 |-> st]
        /\ store = st
    /\ rs = NoResponse
    /\ IdleAnnot
    /\ IdleSmooth
    /\ IdleLim
    /\ IdleBox
    /\ IdleProc
    /\ IdleConc

NextPreview == PreviewTimeseries \/ PreviewHysteresis

SpecPreview == InitPreview /\ [][NextPreview]_vars

----------------------------------------------------------------------------
(* A process serving requests one after another *)

\* the seconds a request that follows one served at now can be served at
ClockAfter(now) == IF now = "t0" THEN Clock ELSE {"t1"}

\* export_formats of the requests: one format, or one format and one savefig
\* does not write
ProcFormats ==
    {[given |-> TRUE, v |-> <<"png">>], [given |-> TRUE, v |-> <<"png", "xyz">>]}

\* the requests a process receives at the second now with the storage st:
\* previews and exports of both charts on a sound dataset and on one that
\* lacks the series column, exports with filename_base given and not, and
\* time-series previews with peak annotations on a series without a number
ProcRequests(st, now) ==
    {[mode |-> "preview", chart |-> chart, df |-> ExportDataset(1, ab),
      params |-> PreviewParams(chart, LimNone, LimNone, FALSE, FALSE, 0),
      env |-> Env(now, NoFault), store0 |-> st] :
        chart \in {"timeseries", "hysteresis"}, ab \in {{}, {1}}} \cup
    {[mode |-> "preview", chart |-> "timeseries",
      df |-> [x |-> Ramp(2), ys |-> << <<NaN, NaN>> >>, absent |-> {}],
      params |-> PreviewParams("timeseries", LimNone, LimNone, TRUE, FALSE, 0),
      env |-> Env(now, NoFault), store0 |-> st]} \cup
    {[mode |-> "export", chart |-> chart, df |-> ExportDataset(1, ab),
      params |-> ExportParams(chart, LimNone, LimNone, "out", stem, fm),
      env |-> Env(now, NoFault), store0 |-> st] :
        chart \in {"timeseries", "hysteresis"}, ab \in {{}, {1}},
        stem \in {<<>>, <<"user", "chart">>}, fm \in ProcFormats}

InitProc ==
    /\ rq \in ProcRequests(EmptyStore, "t0")
    /\ rs = NoResponse
    /\ store = EmptyStore
    /\ IdleProc
    /\ IdleAnnot
    /\ IdleSmooth
    /\ IdleLim
    /\ IdleBox
    /\ IdleConc

\* the process takes the next request after the present one was answered
NextRequest ==
    /\ rs # NoResponse
    /\ Len(served) < MaxRequests - 1
    /\ served' = Append(served, [rq |-> rq, rs |-> rs])
    /\ \E now \in ClockAfter(rq.env.now) : rq' \in ProcRequests(store, now)
    /\ rs' = NoResponse
    /\ UNCHANGED <<store, rcParams, figures>>
    /\ UNCHANGED <<annotVars, smoothVars, limVars, boxVars, concVars>>

NextProc ==
    \/ PreviewTimeseries
    \/ PreviewHysteresis
    \/ ExportTimeseries
    \/ ExportHysteresis
    \/ NextRequest

SpecProc == InitProc /\ [][NextProc]_vars

----------------------------------------------------------------------------
(* A hysteresis render, statement by statement *)

\* a hysteresis render about to plot: the renderer (utils_plot's preview and
\* export, which share the statements, or the reference script), its
\* arguments, its position, and what it has set on its axes
HysCall(renderer, df, params, equal_aspect) ==
    [kind |-> "hysteresis", renderer |-> renderer, df |-> df, params |-> params,
     equal_aspect |-> equal_aspect, pc |-> "plot", lines |-> <<>>,
     aspect |-> "auto", xlims |-> <<>>, ylims |-> <<>>]

\* for i, col in enumerate(y_cols): ... ax.plot(x, y, ...)
PlotLines(t) ==
    /\ th[t].kind = "hysteresis"
    /\ th[t].pc = "plot"
    /\ LET pl == PlotLoop(1, <<>>, th[t].df.x, th[t].df.ys, th[t].df.absent, th[t].params)
       IN  th' = [th EXCEPT ![t].lines = pl.lines,
                            ![t].pc = IF pl.raised THEN "raised" ELSE "aspect"]
    /\ UNCHANGED <<annotVars, smoothVars, limVars, tsVars, boxVars, procVars>>

\* if equal_aspect: ax.set_aspect("equal", adjustable=...)
SetAspect(t) ==
    /\ th[t].kind = "hysteresis"
    /\ th[t].pc = "aspect"
    /\ th' = [th EXCEPT ![t].aspect = IF th[t].equal_aspect THEN "equal" ELSE "auto",
                        ![t].pc = "xlim"]
    /\ UNCHANGED <<annotVars, smoothVars, limVars, tsVars, boxVars, procVars>>

\* the x limits: _normalize_lim and ax.set_xlim (the reference script falls
\* back to _nice_auto_limits, outside any try block)
SetXLim(t) ==
    /\ th[t].kind = "hysteresis"
    /\ th[t].pc = "xlim"
    /\ LET xl == IF th[t].renderer = "reference"
                 THEN RefResolveX(th[t].df.x, th[t].params.xlim)
                 ELSE ResolveAccumAxis(XPerLine(th[t].df.x, th[t].lines), th[t].params.xlim)
       IN  th' = [th EXCEPT ![t].xlims = xl.applied,
                            ![t].pc = IF xl.raised THEN "raised" ELSE "ylim"]
    /\ UNCHANGED <<annotVars, smoothVars, limVars, tsVars, boxVars, procVars>>

\* the y limits: _normalize_lim and ax.set_ylim
SetYLim(t) ==
    /\ th[t].kind = "hysteresis"
    /\ th[t].pc = "ylim"
    /\ LET yl == IF th[t].renderer = "reference"
                 THEN RefResolveY(th[t].lines, th[t].params.ylim)
                 ELSE ResolveAccumAxis(th[t].lines, th[t].params.ylim)
       IN  th' = [th EXCEPT ![t].ylims = yl.applied,
                            ![t].pc = IF yl.raised THEN "raised" ELSE "draw"]
    /\ UNCHANGED <<annotVars, smoothVars, limVars, tsVars, boxVars, procVars>>

\* ax.legend, fig.tight_layout and the savefig that draws the figure
DrawFigure(t) ==
    /\ th[t].kind = "hysteresis"
    /\ th[t].pc = "draw"
    /\ th' = [th EXCEPT ![t].pc = "done"]
    /\ UNCHANGED <<annotVars, smoothVars, limVars, tsVars, boxVars, procVars>>

AspectDatasets == {ExportDataset(c, {}) : c \in 1..MaxSeries}

InitAspect ==
    /\ \E r \in {"utils_plot", "reference"}, df \in AspectDatasets,
          xl \in HysXLims, yl \in HysYLims, eq \in BOOLEAN :
        th = <<HysCall(r, df, HysParams("none", 5, xl, yl), eq)>>
    /\ IdleAnnot
    /\ IdleSmooth
    /\ IdleLim
    /\ IdleTS
    /\ IdleBox
    /\ IdleProc

NextAspect ==
    \/ \E t \in 1..Len(th) : PlotLines(t)
    \/ \E t \in 1..Len(th) : SetAspect(t)
    \/ \E t \in 1..Len(th) : SetXLim(t)
    \/ \E t \in 1..Len(th) : SetYLim(t)
    \/ \E t \in 1..Len(th) : DrawFigure(t)

SpecAspect == InitAspect /\ [][NextAspect]_vars

----------------------------------------------------------------------------
(* Time-series requests with peak annotations served concurrently *)

\* a time-series call with annotate_peaks that has plotted its lines and made
\* its box list (used_bboxes = []): the figure it is on (an export renders
\* two, the preview's and the one it saves), the next series to annotate,
\* the texts on the axes, its box list, the annotations of the figure and
\* those of the figures it finished
TSCall(mode, x, lines, withArrow) ==
    [kind |-> "timeseries", mode |-> mode, x |-> x, lines |-> lines,
     res |-> IF mode = "preview" THEN 120 ELSE 600, withArrow |-> withArrow,
     figure |-> 1, i |-> 1, pc |-> "annotate",
     texts |-> <<>>, used |-> <<>>, annots |-> <<>>, done |-> <<>>]

\* the box lists of the first n calls, one after the other
RECURSIVE AllUsed(_, _)
AllUsed(running, n) == IF n = 0 THEN <<>> ELSE AllUsed(running, n - 1) \o running[n].used

\* a mutant of UsedBoxes: one box list at module level serves every call
UsedBoxesShared(running, t) == AllUsed(running, Len(running))

\* the list the call t hands to _annotate_absmax: used_bboxes, a local of the
\* call made anew for each figure
UsedBoxes(running, t) == running[t].used

\* one turn of `for (lab, x_data, y_data, line) in plotted: _annotate_absmax(...)`
AnnotateNext(t) ==
    /\ th[t].kind = "timeseries"
    /\ th[t].pc = "annotate"
    /\ th[t].i <= Len(th[t].lines)
    /\ LET a == _annotate_absmax(th[t].texts, UsedBoxes(th, t), th[t].x,
                                 th[t].lines[th[t].i], th[t].res, th[t].withArrow)
       IN  th' = IF a.raised
                 THEN [th EXCEPT ![t].pc = "raised"]
                 ELSE [th EXCEPT ![t].texts = a.fig,
                                 ![t].used = a.used,
                                 ![t].annots = Append(@, [series |-> th[t].i, idx |-> a.idx,
                                                          off |-> a.off,
                                                          bb |-> a.used[Len(a.used)],
                                                          fallback |-> a.fallback]),
                                 ![t].i = @ + 1]
    /\ UNCHANGED <<annotVars, smoothVars, limVars, tsVars, boxVars, procVars>>

\* the loop is over: the figure is encoded and closed; an export goes on to
\* render its second figure, with a new box list
CloseFigure(t) ==
    /\ th[t].kind = "timeseries"
    /\ th[t].pc = "annotate"
    /\ th[t].i > Len(th[t].lines)
    /\ th' = IF th[t].mode = "export" /\ th[t].figure = 1
             THEN [th EXCEPT ![t].done = Append(@, th[t].annots),
                             ![t].figure = 2, ![t].i = 1,
                             ![t].texts = <<>>, ![t].used = <<>>, ![t].annots = <<>>]
             ELSE [th EXCEPT ![t].done = Append(@, th[t].annots), ![t].pc = "done"]
    /\ UNCHANGED <<annotVars, smoothVars, limVars, tsVars, boxVars, procVars>>

\* the plotted lines of a call: one or two series with the same peak
ConcLines == { << <<Num(-2), Num(1)>> >>, << <<Num(-2), Num(1)>>, <<Num(-2), Num(1)>> >> }

InitConc ==
    /\ \E withArrow \in BOOLEAN :
        th \in [1..MaxRequests ->
                    {TSCall(m, Ramp(2), ls, withArrow) :
                        m \in {"preview", "export"}, ls \in ConcLines}]
    /\ IdleAnnot
    /\ IdleSmooth
    /\ IdleLim
    /\ IdleTS
    /\ IdleBox
    /\ IdleProc

NextConc ==
    \/ \E t \in 1..Len(th) : AnnotateNext(t)
    \/ \E t \in 1..Len(th) : CloseFigure(t)

SpecConc == InitConc /\ [][NextConc]_vars

----------------------------------------------------------------------------
(* Claims about the annotator, checked under SpecAnnot *)

\* C1: every call keeps the earliest candidate offset whose measured box
\* does not overlap, under the 2-pixel padded rectangle test, any box placed
\* before it; whenever at least one candidate is conflict-free the recorded
\* box overlaps no earlier recorded box.
C1_FirstFreeCandidateKept ==
    \A i \in 1..Len(placed) :
        LET p == placed[i]
            box(c) == MeasureBBox(p.xy, Candidates[c], p.size, dpi, arrow_extent)
            padded(b1, b2) ==
                /\ b1.x0 - 2 <= b2.x1 + 2
                /\ b2.x0 - 2 <= b1.x1 + 2
                /\ b1.y0 - 2 <= b2.y1 + 2
                /\ b2.y0 - 2 <= b1.y1 + 2
            free(c) == \A k \in 1..(i - 1) : ~padded(box(c), used_bboxes[k])
            frees == {c \in 1..Len(Candidates) : free(c)}
        IN  frees # {} =>
                LET first == CHOOSE c \in frees : \A d \in frees : c <= d
                IN  /\ ~p.fallback
                    /\ p.off = Candidates[first]
                    /\ used_bboxes[i] = box(first)
                    /\ \A k \in 1..(i - 1) : ~padded(used_bboxes[i], used_bboxes[k])

\* witness of C1: a call skipped conflicting candidates and kept a later one
C1_Witness ==
    \E i \in 1..Len(placed) : ~placed[i].fallback /\ placed[i].tried >= 3

FallbackCount == Cardinality({i \in 1..Len(placed) : placed[i].fallback})

\* C3 as stated: N >= 2 annotated points give N placed boxes with at most
\* one fallback overlap.
C3_AtMostOneFallback ==
    calls >= 2 => (Len(used_bboxes) = calls /\ FallbackCount <= 1)

\* C3 amended: N >= 2 annotated points give N placed boxes; every call after
\* the first may fall back, so there are at most N - 1 fallback overlaps, and
\* each fallback box does overlap an earlier box.
C3_FallbacksBelowCalls ==
    calls >= 2 =>
        /\ Len(used_bboxes) = calls
        /\ FallbackCount <= calls - 1
        /\ \A i \in 1..Len(placed) :
            placed[i].fallback =>
                \E k \in 1..(i - 1) : _bboxes_overlap(used_bboxes[i], used_bboxes[k], 2)

\* witness of C3: two calls of one figure both fell back
C3_Witness == calls >= 3 /\ FallbackCount >= 2

----------------------------------------------------------------------------
(* Claims about _smooth_series, checked under SpecSmooth *)

\* C6 as stated: moving-average smoothing returns a series as long as its
\* input for every kernel width k and every input length, also when k is
\* larger than the number of samples.
C6_MovingAverageKeepsLength ==
    (sm_in.method = "ma" /\ sm_out # Pending /\ ~sm_out.raised) =>
        Len(sm_out.y) = Len(sm_in.y)

\* C7: moving-average smoothing with k = 1 or any k < 1 is the identity:
\* same length, same value at every index, NaN at exactly the same indices.
C7_MovingAverageWidthOneIsIdentity ==
    (sm_in.method = "ma" /\ sm_in.kwargs.k <= 1 /\ sm_out # Pending) =>
        /\ ~sm_out.raised
        /\ Len(sm_out.y) = Len(sm_in.y)
        /\ \A i \in 1..Len(sm_in.y) :
            /\ sm_out.y[i].nan = sm_in.y[i].nan
            /\ SameSample(sm_out.y[i], sm_in.y[i])

\* witness of C7: a width below 1 was applied to a series holding a NaN
\* between numbers
C7_Witness ==
    /\ sm_in.method = "ma" /\ sm_in.kwargs.k < 1 /\ sm_out # Pending
    /\ Len(sm_in.y) = 3 /\ sm_in.y[2].nan /\ ~sm_in.y[1].nan /\ sm_in.y[3].num # 0

----------------------------------------------------------------------------
(* Claims about the axis limits, checked under SpecLim *)

C10_AppliedLimitsOrdered ==
    lim_out.status = "done" =>
        \A i \in 1..Len(lim_out.applied) :
            RLt(lim_out.applied[i][1], lim_out.applied[i][2])

\* C14 as stated: when the data of an axis has no finite sample (an empty or
\* all-NaN column) and the user spec is absent, (null, null) or has one end
\* given, the limit stage sets no limits on that axis and the render goes on.
C14_NoFiniteDataSetsNoLimits ==
    (/\ lim_out.status = "done"
     /\ Len(Valid(lim_in.data[1])) = 0
     /\ \/ lim_in.lim = LimNone
        \/ lim_in.lim.kind = "pair" /\ (lim_in.lim.lo.none \/ lim_in.lim.hi.none))
        => ~lim_out.raised /\ lim_out.applied = <<>>

----------------------------------------------------------------------------
(* Claims about the time-series chart, checked under SpecTS *)

\* C4: the point annotated on a series with a non-NaN sample is the sample
\* at the smallest index whose absolute value is the maximum over the
\* non-NaN samples; [-3, 5, -7, 2] selects index 2 and [0, 1, 0, -1, 0]
\* selects index 1.
C4_PeakIsFirstAbsMax ==
    (rs.status = "ok" /\ rq.params.annotate_peaks) =>
        LET f == rs.preview_data_url
        IN  /\ Len(f.annots) = Len(f.lines)
            /\ \A n \in 1..Len(f.annots) :
                LET y == f.lines[n]
                    i == f.annots[n].idx + 1
                IN  /\ f.annots[n].series = n
                    /\ i \in 1..Len(y)
                    /\ ~y[i].nan
                    /\ \A j \in 1..Len(y) :
                        ~y[j].nan =>
                            /\ RLe(RAbs(y[j]), RAbs(y[i]))
                            /\ j < i => RLt(RAbs(y[j]), RAbs(y[i]))
                    /\ y = <<Num(-3), Num(5), Num(-7), Num(2)>> => f.annots[n].idx = 2
                    /\ y = <<Num(0), Num(1), Num(0), Num(-1), Num(0)>> => f.annots[n].idx = 1

\* witness of C4: the series [0, 1, 0, -1, 0], whose peak magnitude occurs
\* twice, was annotated
C4_Witness ==
    /\ rs.status = "ok"
    /\ rq.params.annotate_peaks
    /\ rq.params.smooth = "none"
    /\ rq.df.ys = << <<Num(0), Num(1), Num(0), Num(-1), Num(0)>> >>
    /\ Len(rs.preview_data_url.annots) = 1

\* a series without data: no samples, or only NaN
NoData(y) == Len(Valid(y)) = 0

\* C5 as stated: a time-series preview or export with annotate_peaks or
\* metrics_box enabled still completes and returns an image when a plotted
\* series is entirely NaN or has no samples.
C5_NoDataSeriesStillRenders ==
    (/\ rs.status # "pending"
     /\ rq.params.smooth = "none"
     /\ rq.params.annotate_peaks \/ rq.params.metrics_box
     /\ \E i \in 1..Len(rq.df.ys) : NoData(rq.df.ys[i])) =>
        /\ rs.status = "ok"
        /\ rs.preview_data_url # NoFigure

\* C24 as stated: the metrics box is on the returned image only when
\* metrics_box is enabled and exactly two series are plotted; with fewer or
\* with more than two series the option does nothing: no box is drawn and
\* the metrics stage raises no error.
C24_MetricsBoxOnlyForTwoSeries ==
    /\ rs.status = "ok" =>
        (rs.preview_data_url.metrics.drawn
            <=> (rq.params.metrics_box /\ Len(rq.df.ys) = 2))
    /\ (rs.status = "raised" /\ rq.params.metrics_box /\ Len(rq.df.ys) # 2) =>
        rs.stage # "metrics"

----------------------------------------------------------------------------
(* Claims about the hysteresis chart, checked under SpecHys *)

\* the non-NaN values of the series of an axis
AxisValues(series) ==
    UNION {{series[i][j] : j \in 1..Len(series[i])} : i \in 1..Len(series)} \ {NaN}

\* the ends of the pair a spec with two ends resolves to on data with values
\* V: a given end as given, a null end as the least or the greatest of V
ExpectedLo(lim, V) ==
    IF lim.lo.none THEN CHOOSE v \in V : \A w \in V : RLe(v, w) ELSE lim.lo.v
ExpectedHi(lim, V) ==
    IF lim.hi.none THEN CHOOSE v \in V : \A w \in V : RLe(w, v) ELSE lim.hi.v

\* C11: in a rendered hysteresis figure whose axis has data, a length-2 spec
\* applies the pair in which each null end is the data extreme of that end
\* and each given end is the user's value; the x pair is computed from the x
\* column only and the y pair from the plotted y series only.
C11_NullEndsTakeOwnAxisExtremes ==
    (rq.chart = "hysteresis" /\ rs.status = "ok") =>
        LET f  == rs.preview_data_url
            xv == AxisValues(<<rq.df.x>>)
            yv == AxisValues(f.lines)
            xl == rq.params.xlim
            yl == rq.params.ylim
        IN  /\ (xl.kind = "pair" /\ xv # {}) =>
                /\ Len(f.xlims) = 1
                /\ REq(f.xlims[1][1], ExpectedLo(xl, xv))
                /\ REq(f.xlims[1][2], ExpectedHi(xl, xv))
            /\ (yl.kind = "pair" /\ yv # {}) =>
                /\ Len(f.ylims) = 1
                /\ REq(f.ylims[1][1], ExpectedLo(yl, yv))
                /\ REq(f.ylims[1][2], ExpectedHi(yl, yv))

\* witness of C11: both axes carried a spec with a null end and the x and y
\* extremes differ at those ends
C11_Witness ==
    /\ rq.chart = "hysteresis" /\ rs.status = "ok"
    /\ rq.params.xlim = LimPair(NoneV, Some(Num(3)))
    /\ rq.params.ylim = LimPair(NoneV, Some(Num(3)))
    /\ Len(rs.preview_data_url.xlims) = 1 /\ Len(rs.preview_data_url.ylims) = 1
    /\ REq(rs.preview_data_url.xlims[1][1], Num(-1))
    /\ REq(rs.preview_data_url.ylims[1][1], Num(-2))

----------------------------------------------------------------------------
(* Claims about _nice_auto_limits, checked under SpecAuto *)

\* the padded range of the extremes a <= b: symmetric about zero when the
\* range crosses zero and symmetry is asked for, else widened by pad_frac of
\* the span at each end
PaddedRange(a, b, pad_frac, symmetric) ==
    IF symmetric /\ a.num < 0 /\ b.num > 0
    THEN LET m == IF RLt(RAbs(a), RAbs(b)) THEN RAbs(b) ELSE RAbs(a)
         IN  <<RNeg(RMul(m, RAdd(Num(1), pad_frac))), RMul(m, RAdd(Num(1), pad_frac))>>
    ELSE <<RSub(a, RMul(RSub(b, a), pad_frac)), RAdd(b, RMul(RSub(b, a), pad_frac))>>

\* the result for a flat range at v: v -/+ h0 when v is zero, v -/+ 20% of
\* |v| otherwise, then padded
FlatExpected(v, h0, pad_frac, symmetric) ==
    LET h == IF v.num = 0 THEN h0 ELSE RMul(RAbs(v), Frac(1, 5))
    IN  PaddedRange(RSub(v, h), RAdd(v, h), pad_frac, symmetric)

\* a call on a flat range min == max has returned
FlatCallDone ==
    /\ lim_out.status = "done"
    /\ ~lim_in.dmin.nan
    /\ REq(lim_in.dmin, lim_in.dmax)

\* C12 as stated: on a flat range the function opens a span of +/-0.5 when
\* the value is zero, or +/-20% of the magnitude when it is not, pads after
\* that, and returns a range of nonzero width.
C12_FlatSpanHalfOrFifth ==
    FlatCallDone =>
        LET e == FlatExpected(lim_in.dmin, Frac(lim_in.scale, 2), lim_in.pad_frac,
                              lim_in.symmetric_if_cross_zero)
        IN  /\ ~lim_out.limits.none
            /\ REq(lim_out.limits.lo, e[1])
            /\ REq(lim_out.limits.hi, e[2])
            /\ RLt(lim_out.limits.lo, lim_out.limits.hi)

\* C12 amended: on a flat range the function opens a span of +/-1.0 when the
\* value is zero, or +/-20% of the magnitude when it is not, pads after that,
\* and returns a range of nonzero width.
C12_FlatSpanOneOrFifth ==
    FlatCallDone =>
        LET e == FlatExpected(lim_in.dmin, Frac(lim_in.scale, 1), lim_in.pad_frac,
                              lim_in.symmetric_if_cross_zero)
        IN  /\ ~lim_out.limits.none
            /\ REq(lim_out.limits.lo, e[1])
            /\ REq(lim_out.limits.hi, e[2])
            /\ RLt(lim_out.limits.lo, lim_out.limits.hi)

\* witness of C12: the flat range at zero came back as -/+ 1.05
C12_Witness ==
    /\ FlatCallDone
    /\ lim_in.scale = 1
    /\ lim_in.dmin = Num(0)
    /\ lim_out.limits.hi = Frac(21, 20)

\* a call on a range with a negative and a positive end, symmetry asked
\* for, has returned
CrossingCallDone ==
    /\ lim_out.status = "done"
    /\ ~lim_in.dmin.nan /\ ~lim_in.dmax.nan
    /\ lim_in.dmin.num < 0 /\ lim_in.dmax.num > 0
    /\ lim_in.symmetric_if_cross_zero

\* max(|min|, |max|) * (1 + pad_frac) of the call
CrossingHi ==
    RMul(IF RLt(RAbs(lim_in.dmin), lim_in.dmax) THEN lim_in.dmax ELSE RAbs(lim_in.dmin),
         RAdd(Num(1), lim_in.pad_frac))

\* max - min <= 1e-8 + 1e-5 * |max|, for the whole numbers of units the
\* calls carry
WithinTolerance ==
    (lim_in.dmax.num - lim_in.dmin.num) * 100000000
        <= lim_in.scale + 1000 * lim_in.dmax.num

\* C13 as stated: for every finite range with a negative and a positive
\* value the limits are lo == -hi with hi = max(|min|, |max|) * (1 + pad_frac).
C13_CrossingZeroSymmetric ==
    CrossingCallDone =>
        /\ ~lim_out.limits.none
        /\ REq(lim_out.limits.lo, RNeg(lim_out.limits.hi))
        /\ REq(lim_out.limits.hi, CrossingHi)

\* C13 amended: for every finite range with a negative and a positive value
\* the limits are lo == -hi; hi = max(|min|, |max|) * (1 + pad_frac) unless
\* max - min is within np.isclose's tolerance, and then both ends are first
\* moved outwards by 20% of |min|.
C13_CrossingZeroSymmetricUnlessFlat ==
    CrossingCallDone =>
        /\ ~lim_out.limits.none
        /\ REq(lim_out.limits.lo, RNeg(lim_out.limits.hi))
        /\ ~WithinTolerance => REq(lim_out.limits.hi, CrossingHi)
        /\ WithinTolerance =>
            LET h == RMul(RAbs(lim_in.dmin), Frac(1, 5))
                e == PaddedRange(RSub(lim_in.dmin, h), RAdd(lim_in.dmax, h),
                                 lim_in.pad_frac, TRUE)
            IN  /\ REq(lim_out.limits.hi, e[2])
                /\ RLt(CrossingHi, lim_out.limits.hi)

\* witness of C13: a range from -2.5e-9 to 5e-9 was resolved
C13_Witness ==
    /\ CrossingCallDone
    /\ lim_in.scale = 400000000
    /\ lim_in.dmin = Num(-1)
    /\ lim_in.dmax = Num(2)
    /\ WithinTolerance

----------------------------------------------------------------------------
(* Claims about exports, checked under SpecExport *)

\* an export request was served
ExportDone == rs.status # "pending"

\* the target directory, the stem and the formats of the served request
ExportDir == SaveDir(rq.params)
ExportStem == FilenameBase(rq.params, rq.chart, rq.env.now)
ExportList == ExportFormats(rq.params)

\* the savefig of the i-th format fails
SaveFailsAt(i) ==
    \/ ExportList[i] \notin SupportedFormats
    \/ rq.env.io.kind = "savefig" /\ rq.env.io.at = i

\* the export got as far as writing the format files, and one of them fails
SaveFails ==
    /\ rq.df.absent = {}
    /\ rq.env.io.kind # "makedirs"
    /\ \E i \in 1..Len(ExportList) : SaveFailsAt(i)

\* the first format whose savefig fails
FailAt == CHOOSE i \in 1..Len(ExportList) : SaveFailsAt(i) /\ \A k \in 1..(i - 1) : ~SaveFailsAt(k)

\* C15 as stated, for exports on a storage without faults: a malformed xlim
\* or ylim (not a pair) makes the operation fail: the render is aborted, no
\* image is returned and nothing is written to storage.
C15_MalformedLimAborts ==
    (/\ ExportDone
     /\ rq.env.io = NoFault
     /\ rq.params.xlim = LimMalformed \/ rq.params.ylim = LimMalformed)
        => /\ rs.status = "raised"
           /\ rs.preview_data_url = NoFigure
           /\ store = rq.store0

\* C16: an export whose x/time column or one of whose series columns is
\* absent from the data fails, and the storage is as the request found it: no
\* directory, file or archive was created.
C16_AbsentColumnFailsBeforeStorage ==
    (ExportDone /\ rq.df.absent # {})
        => /\ rs.status = "raised"
           /\ rs.stage = "column"
           /\ rs.files = <<>>
           /\ rs.zip = <<>>
           /\ store = rq.store0

\* witness of C16: an export with a series column absent, at least one format
\* to write and no storage fault failed on an empty storage
C16_Witness ==
    /\ ExportDone
    /\ rq.df.absent # {}
    /\ 0 \notin rq.df.absent
    /\ Len(ExportList) > 0
    /\ rq.env.io = NoFault
    /\ rq.store0 = EmptyStore
    /\ rs.status = "raised"
    /\ store = EmptyStore

\* C17: a successful export with export_formats [f1, ..., fn] wrote one file
\* per entry, the i-th named {stem}.{fi} in the target directory, which
\* exists afterwards; no other file was written; the returned list is those n
\* paths in the order of export_formats, and the returned archive path is
\* {stem}.zip in the same directory.
C17_OneFilePerFormatInOrder ==
    (ExportDone /\ rs.status = "ok")
        => /\ Len(rs.files) = Len(ExportList)
           /\ \A i \in 1..Len(ExportList) :
                /\ rs.files[i] = Path(ExportDir, ExportStem, ExportList[i])
                /\ rs.files[i] \in store.files
           /\ store.files = rq.store0.files \cup {rs.files[i] : i \in 1..Len(rs.files)}
           /\ store.dirs = rq.store0.dirs \cup {ExportDir}
           /\ rs.zip = Path(ExportDir, ExportStem, "zip")

\* witness of C17: an export of two different formats succeeded on a storage
\* where the target directory was absent
C17_Witness ==
    /\ ExportDone
    /\ rs.status = "ok"
    /\ Len(ExportList) = 2
    /\ ExportList[1] # ExportList[2]
    /\ ExportDir \notin rq.store0.dirs
    /\ Len(rs.files) = 2

\* C18: after a successful export the archive at the returned path holds one
\* entry per returned format file, in order, each named by the file's
\* basename; with the default formats png, pdf, svg it holds 3 entries.
C18_ArchiveHoldsBasenames ==
    (ExportDone /\ rs.status = "ok")
        => /\ \E z \in store.zips : z.path = rs.zip
           /\ \A z \in store.zips :
                z.path = rs.zip =>
                    /\ Len(z.entries) = Len(rs.files)
                    /\ \A i \in 1..Len(rs.files) : z.entries[i] = Basename(rs.files[i])
           /\ ~rq.params.export_formats.given =>
                \A z \in store.zips : z.path = rs.zip => Len(z.entries) = 3

\* witness of C18: an export with the default formats succeeded and its
\* archive holds three entries
C18_Witness ==
    /\ ExportDone
    /\ rs.status = "ok"
    /\ ~rq.params.export_formats.given
    /\ \E z \in store.zips : z.path = rs.zip /\ Len(z.entries) = 3

\* C19: when the savefig of one format fails, the export fails: the caller
\* gets an error, no file list and no archive path, and no archive was
\* created or rewritten.
C19_FormatFailureFailsExport ==
    (ExportDone /\ SaveFails)
        => /\ rs.status = "raised"
           /\ rs.stage = "savefig"
           /\ rs.files = <<>>
           /\ rs.zip = <<>>
           /\ store.zips = rq.store0.zips

\* witness of C19: the second of two formats failed after the first was
\* written
C19_Witness ==
    /\ ExportDone
    /\ SaveFails
    /\ Len(ExportList) = 2
    /\ FailAt = 2
    /\ Path(ExportDir, ExportStem, ExportList[1]) \in store.files
    /\ rs.status = "raised"

\* C20 as stated: when an export fails at the i-th format, the files of the
\* formats 1 .. i-1 that this call wrote are not in the target directory
\* afterwards.
C20_NoPartialExport ==
    (ExportDone /\ SaveFails)
        => \A j \in 1..(FailAt - 1) :
              Path(ExportDir, ExportStem, ExportList[j]) \notin store.files

----------------------------------------------------------------------------
(* Claims about previews, checked under SpecPreview *)

\* C21: a preview call, of a time-series or of a hysteresis chart, leaves the
\* storage as it found it on every path (image returned, or a stage raised):
\* no directory, file or archive is created or changed; it hands back no file
\* list and no archive path, and when it succeeds, the encoded image.
C21_PreviewLeavesStorage ==
    (rq.mode = "preview" /\ rs.status # "pending")
        => /\ store = rq.store0
           /\ rs.files = <<>>
           /\ rs.zip = <<>>
           /\ rs.status = "ok" => rs.preview_data_url # NoFigure
           /\ rs.status = "raised" => rs.preview_data_url = NoFigure

\* witness of C21: a preview returned its image on a storage that holds an
\* older export
C21_Witness ==
    /\ rq.mode = "preview"
    /\ rs.status = "ok"
    /\ rs.preview_data_url # NoFigure
    /\ rq.store0 = UsedStore
    /\ store = UsedStore

\* what a preview call with the dataset and the configuration of the served
\* request returns
PreviewOfRequest ==
    IF rq.chart = "timeseries"
    THEN plot_timeseries_preview(rq.df, rq.params, FALSE)
    ELSE plot_hysteresis_preview(rq.df, rq.params)

\* C22 as stated: the preview image a successful export returns is the image
\* a preview call with the same dataset and configuration returns, rendered
\* with the same settings (120 dpi when dpi is not given).
C22_ExportPreviewIsThePreview ==
    (ExportDone /\ rq.mode = "export" /\ rs.status = "ok")
        => /\ PreviewOfRequest.status = "ok"
           /\ rs.preview_data_url = PreviewOfRequest.preview_data_url

----------------------------------------------------------------------------
(* Claims about the metrics box, checked under SpecMetrics *)

\* the magnitudes of the non-NaN samples of a series
Magnitudes(y) == {RAbs(y[i]) : i \in {j \in 1..Len(y) : ~y[j].nan}}

\* the largest of them
MaxMagnitude(y) == CHOOSE v \in Magnitudes(y) : \A w \in Magnitudes(y) : RLe(w, v)

\* an _add_peak_metrics_box call returned, on series with a non-NaN sample
\* each
MetricsDone ==
    /\ mb_out.status = "done"
    /\ ~mb_out.raised
    /\ Magnitudes(mb_in.y_ref) # {}
    /\ Magnitudes(mb_in.y_cmp) # {}

\* C23: the metrics box reports peak_ref = max|reference| and peak_cmp =
\* max|comparison| over the non-NaN samples; reduction_pct is
\* 100 * (1 - peak_cmp / peak_ref) when peak_ref > 1e-12 and NaN when
\* peak_ref <= 1e-12; reference [10, -10] and comparison [5, -5] report 10, 5
\* and 50.
C23_MetricsBoxNumbers ==
    /\ MetricsDone =>
        /\ mb_out.box.p1 = MaxMagnitude(mb_in.y_ref)
        /\ mb_out.box.p2 = MaxMagnitude(mb_in.y_cmp)
        /\ RLt(Threshold(mb_in.exp), MaxMagnitude(mb_in.y_ref)) =>
              mb_out.box.peak_drop =
                  RMul(Num(100), RSub(Num(1), RDiv(MaxMagnitude(mb_in.y_cmp),
                                                   MaxMagnitude(mb_in.y_ref))))
        /\ RLe(MaxMagnitude(mb_in.y_ref), Threshold(mb_in.exp)) => mb_out.box.peak_drop = NaN
    /\ (/\ mb_out.status = "done"
        /\ mb_in.exp = 0
        /\ mb_in.y_ref = <<Num(10), Num(-10)>>
        /\ mb_in.y_cmp = <<Num(5), Num(-5)>>)
            => /\ ~mb_out.raised
               /\ mb_out.box.p1 = Num(10)
               /\ mb_out.box.p2 = Num(5)
               /\ mb_out.box.peak_drop = Num(50)

\* witness of C23: a reference whose peak is exactly 1e-12 was given and the
\* box reports NaN for the reduction
C23_Witness ==
    /\ MetricsDone
    /\ mb_in.exp = 13
    /\ MaxMagnitude(mb_in.y_ref) = Num(10)
    /\ mb_out.box.drawn
    /\ mb_out.box.peak_drop = NaN

----------------------------------------------------------------------------
(* Claims about the process, checked under SpecProc *)

\* C25: the process-wide style configuration is as the import wrote it in
\* every state of the process: no preview or export, returning or raising,
\* after any sequence of requests, changes an entry of rcParams.
C25_RcParamsReadOnly == rcParams = ImportedRcParams

\* witness of C25: the process answered a request that raised and then an
\* export that wrote its files
C25_Witness ==
    /\ Len(served) >= 1
    /\ served[1].rs.status = "raised"
    /\ rq.mode = "export"
    /\ rs.status = "ok"
    /\ rcParams = ImportedRcParams

\* C28 as stated: every figure a preview or export creates is closed by the
\* call on every exit path, so whenever the process has answered a request,
\* no figure is open in the figure registry.
C28_NoFigureLeftOpen == rs.status # "pending" => figures = 0

\* the paths of a returned file list
FilesOf(resp) == {resp.files[i] : i \in 1..Len(resp.files)}

\* C29 as stated: two exports of the same chart kind that leave
\* filename_base unset and succeed, one after the other into the same
\* directory, return different paths: no format file and no archive of the one
\* is a path of the other.
C29_DefaultStemsNeverCollide ==
    \A i \in 1..Len(served) :
        (/\ served[i].rq.mode = "export"
         /\ rq.mode = "export"
         /\ served[i].rs.status = "ok"
         /\ rs.status = "ok"
         /\ served[i].rq.chart = rq.chart
         /\ served[i].rq.params.filename_base = <<>>
         /\ rq.params.filename_base = <<>>
         /\ SaveDir(served[i].rq.params) = SaveDir(rq.params))
            => /\ FilesOf(served[i].rs) \cap FilesOf(rs) = {}
               /\ served[i].rs.zip # rs.zip

----------------------------------------------------------------------------
(* Claims about the order of a hysteresis render, checked under SpecAspect *)

\* C27 as stated: in a hysteresis render with equal_aspect enabled, the equal
\* aspect ratio is put on the axes after the x and the y limits have been
\* resolved and set, not before them: whenever the axes have it, the render
\* is past both limit statements.
C27_AspectAfterLimits ==
    \A t \in 1..Len(th) :
        (th[t].kind = "hysteresis" /\ th[t].aspect = "equal")
            => th[t].pc \in {"draw", "done"}

----------------------------------------------------------------------------
(* Claims about concurrent calls, checked under SpecConc *)

====
